---------------------------- MODULE Spec2Model ----------------------------
(***************************************************************************)
(* A model of the HPC job-accounting statistics tools                      *)
(* (src/src/hpc_data_analysis): the TRES codec parse_tres_value, the step  *)
(* aggregation of fetch_job_data, the per-job metric calculators           *)
(* calculate_job_metrics / process_job, and the group aggregator           *)
(* update_stats / calculate_final_efficiencies.                            *)
(*                                                                         *)
(* Python values are modelled as tagged records so that None, int, float,  *)
(* str and a raised exception stay distinguishable.  Floats are modelled   *)
(* as exact rationals n/d in lowest terms (binary rounding is not          *)
(* modelled).  Strings are sequences of one-character strings.             *)
(***************************************************************************)
EXTENDS Integers, Sequences, FiniteSets, TLC

VARIABLES
    \* --- TRES codec harness -------------------------------------------------
    tres_string,    \* argument tres_string of parse_tres_value
    tres_id,        \* argument tres_id of parse_tres_value
    tres_pairs,     \* the (id, value) pairs tres_string was joined from, if any
    tres_kind,      \* "null" | "joined" | "raw": how tres_string was produced
    tres_result,    \* what the call returned (NotCalled before the call)
    \* --- accounting store and fetch ----------------------------------------
    job,            \* the row of create_job_table under consideration
    steps,          \* its rows of create_step_table: id_step -> step record
    special_steps,  \* dict step_name -> id_step from discover_special_steps
    row,            \* the row slurm_utils.fetch_job_data yields for the job
    jrow,           \* the row job_stats.fetch_job_data yields for the job
    \* --- metric calculators -------------------------------------------------
    metrics,        \* result of slurm_utils.calculate_job_metrics(row)
    jmetrics,       \* result of job_stats.process_job(jrow)
    \* --- group aggregator ---------------------------------------------------
    stats,          \* main's stats_by_attr, global_stats and use_global
    group_order,    \* the key order of each dict of groups (insertion order)
    emitted,        \* the CSV rows written by output_csv, in order
    jemitted,       \* the CSV rows written by job_stats.output_csv
    user_cache,     \* main's user_cache: (username, attribute) -> value
    ldap_errors,    \* main's ldap_errors: the logged lookup failures
    ldap_conn,      \* LdapClient._conn: "none" or "open"
    last_lookup,    \* history: the latest call of get_user_attribute
    search_count,   \* history: (username, attribute) -> number of calls of
                    \* LdapClient.search made for the pair
    rows_read,      \* history: job_db_inx of the rows read from the cursor
                    \* (main's job_count is its length)
    folded,         \* history: the jobs folded so far, in order
    prev_stats,     \* history: stats before the latest fold
    finalized,      \* whether calculate_final_efficiencies has run
    \* --- one run of a tool ----------------------------------------------
    run             \* the arguments and environment of the run, the position
                    \* of main and the trace of what it did

tres_vars  == <<tres_string, tres_id, tres_pairs, tres_kind, tres_result>>
db_vars    == <<job, steps, special_steps, row, jrow>>
calc_vars  == <<metrics, jmetrics>>
fold_vars  == <<stats, group_order, emitted, jemitted, rows_read, folded, prev_stats,
                 finalized>>
ldap_vars  == <<user_cache, ldap_errors, ldap_conn>>
ldap_hist  == <<last_lookup, search_count>>
agg_vars   == <<fold_vars, ldap_vars, ldap_hist>>
vars       == <<tres_vars, db_vars, calc_vars, agg_vars, run>>

-----------------------------------------------------------------------------
(* Python values                                                           *)

None     == [t |-> "None"]
Raise(e) == [t |-> "raise", exc |-> e]
PyStr(s) == [t |-> "str", s |-> s]
PyInt(n) == [t |-> "int", n |-> n, d |-> 1]

\* Placeholders of the harness (not Python values).
NotCalled == [t |-> "not-called"]
NoRow     == [t |-> "no-row"]

Abs(n) == IF n < 0 THEN -n ELSE n

RECURSIVE Gcd(_, _)
Gcd(a, b) == IF b = 0 THEN a ELSE Gcd(b, a % b)

\* A float n/d, kept in lowest terms with d > 0.
PyFloat(n, d) ==
    LET g == Gcd(Abs(n), Abs(d))
        s == IF d < 0 THEN -1 ELSE 1
    IN  [t |-> "float", n |-> s * (n \div g), d |-> s * (d \div g)]

IsNum(x)   == x.t \in {"int", "float"}
IsRaise(x) == x.t = "raise"

\* Python truthiness: None, 0, 0.0 and "" are falsy.
Truthy(x) ==
    CASE x.t = "None" -> FALSE
      [] IsNum(x)     -> x.n # 0
      [] x.t = "str"  -> x.s # <<>>
      [] OTHER        -> TRUE

\* float(x) for a number.
ToFloat(x) == IF IsNum(x) THEN PyFloat(x.n, x.d) ELSE Raise("TypeError")

\* int(x) for a number (truncation toward zero).
ToInt(x) ==
    IF IsNum(x)
    THEN PyInt(IF x.n >= 0 THEN x.n \div x.d ELSE -((-x.n) \div x.d))
    ELSE Raise("TypeError")

\* The result type of a binary arithmetic operator: float if either is.
NumType(a, b) == IF a.t = "float" \/ b.t = "float" THEN "float" ELSE "int"

MkNum(ty, n, d) == IF ty = "float" THEN PyFloat(n, d) ELSE PyInt(n)

\* a + b, a - b, a * b: an exception operand propagates, a non-number
\* operand (None, str) is a TypeError.
PyAdd(a, b) ==
    IF IsRaise(a) THEN a ELSE IF IsRaise(b) THEN b
    ELSE IF ~IsNum(a) \/ ~IsNum(b) THEN Raise("TypeError")
    ELSE LET g == Gcd(a.d, b.d)
         IN  MkNum(NumType(a, b),
                   a.n * (b.d \div g) + b.n * (a.d \div g),
                   (a.d \div g) * b.d)

PySub(a, b) ==
    IF IsRaise(a) THEN a ELSE IF IsRaise(b) THEN b
    ELSE IF ~IsNum(a) \/ ~IsNum(b) THEN Raise("TypeError")
    ELSE LET g == Gcd(a.d, b.d)
         IN  MkNum(NumType(a, b),
                   a.n * (b.d \div g) - b.n * (a.d \div g),
                   (a.d \div g) * b.d)

PyMul(a, b) ==
    IF IsRaise(a) THEN a ELSE IF IsRaise(b) THEN b
    ELSE IF ~IsNum(a) \/ ~IsNum(b) THEN Raise("TypeError")
    ELSE MkNum(NumType(a, b), a.n * b.n, a.d * b.d)

\* a / b: true division, always a float; ZeroDivisionError on b = 0.
PyDiv(a, b) ==
    IF IsRaise(a) THEN a ELSE IF IsRaise(b) THEN b
    ELSE IF ~IsNum(a) \/ ~IsNum(b) THEN Raise("TypeError")
    ELSE IF b.n = 0 THEN Raise("ZeroDivisionError")
    ELSE PyFloat(a.n * b.d, a.d * b.n)

\* a > 0, as a Python comparison: a TypeError on None.
GtZero(a) == IsNum(a) /\ a.n > 0
CmpRaises(a) == ~IsNum(a)

\* Numeric comparison of two numbers (used by the properties).
NumLe(a, b) == a.n * b.d <= b.n * a.d
NumEq(a, b) == a.n * b.d = b.n * a.d

-----------------------------------------------------------------------------
(* Strings: str.split, int(str), str(int)                                  *)

Digits == {"0", "1", "2", "3", "4", "5", "6", "7", "8", "9"}

DigitVal(c) ==
    CASE c = "0" -> 0 [] c = "1" -> 1 [] c = "2" -> 2 [] c = "3" -> 3
      [] c = "4" -> 4 [] c = "5" -> 5 [] c = "6" -> 6 [] c = "7" -> 7
      [] c = "8" -> 8 [] c = "9" -> 9

DigitChar(v) ==
    CASE v = 0 -> "0" [] v = 1 -> "1" [] v = 2 -> "2" [] v = 3 -> "3"
      [] v = 4 -> "4" [] v = 5 -> "5" [] v = 6 -> "6" [] v = 7 -> "7"
      [] v = 8 -> "8" [] v = 9 -> "9"

RECURSIVE DigitsToNat(_)
DigitsToNat(s) ==
    IF s = <<>> THEN 0
    ELSE 10 * DigitsToNat(SubSeq(s, 1, Len(s) - 1)) + DigitVal(s[Len(s)])

RECURSIVE NatToDigits(_)
NatToDigits(n) ==
    IF n < 10 THEN <<DigitChar(n)>>
    ELSE NatToDigits(n \div 10) \o <<DigitChar(n % 10)>>

\* str(n) / f"{n}" for an int.
FormatInt(n) == IF n < 0 THEN <<"-">> \o NatToDigits(-n) ELSE NatToDigits(n)

\* f"{val:.2f}" for a float: the value rounded to two decimals (a value
\* exactly halfway goes to the even neighbour), with the sign kept.
FormatFixed2(val) ==
    LET a     == Abs(val.n)
        q     == a \div val.d
        r     == a % val.d
        h     == (r * 100) \div val.d
        rem   == (r * 100) % val.d
        up    == 2 * rem > val.d \/ (2 * rem = val.d /\ h % 2 = 1)
        c     == IF up THEN h + 1 ELSE h
        whole == IF c = 100 THEN q + 1 ELSE q
        cents == c % 100
    IN  (IF val.n < 0 THEN <<"-">> ELSE <<>>) \o NatToDigits(whole) \o
        <<".", DigitChar(cents \div 10), DigitChar(cents % 10)>>

\* str(val) for None, an int or a str.
Str(val) ==
    CASE val.t = "None" -> <<"N", "o", "n", "e">>
      [] val.t = "int"  -> FormatInt(val.n)
      [] val.t = "str"  -> val.s

NullText == <<"N", "U", "L", "L">>

\* A mutant: an undefined value is written as an empty field.
format_value_EmptyForNone(val) ==
    IF val.t = "None" THEN <<>>
    ELSE IF val.t = "float" THEN FormatFixed2(val)
    ELSE Str(val)

\* slurm_utils.format_value
format_value(val) ==
    IF val.t = "None" THEN NullText
    ELSE IF val.t = "float" THEN FormatFixed2(val)
    ELSE Str(val)

\* int(s) for a str: an optional sign and at least one decimal digit, else
\* ValueError.  (Surrounding blanks and digit-group underscores, which int()
\* also accepts, are outside the alphabet of the model.)
ParseInt(s) ==
    LET signed == s # <<>> /\ s[1] \in {"-", "+"}
        body   == IF signed THEN Tail(s) ELSE s
    IN  IF body = <<>> \/ \E i \in 1..Len(body) : body[i] \notin Digits
        THEN Raise("ValueError")
        ELSE PyInt(IF signed /\ s[1] = "-" THEN -DigitsToNat(body)
                                           ELSE DigitsToNat(body))

\* Index of the first occurrence of character c in s, 0 if there is none.
IndexOf(s, c) ==
    IF \E i \in 1..Len(s) : s[i] = c
    THEN CHOOSE i \in 1..Len(s) : s[i] = c /\ \A j \in 1..(i - 1) : s[j] # c
    ELSE 0

\* s.split(c)
RECURSIVE Split(_, _)
Split(s, c) ==
    LET i == IndexOf(s, c)
    IN  IF i = 0 THEN <<s>>
        ELSE <<SubSeq(s, 1, i - 1)>> \o Split(SubSeq(s, i + 1, Len(s)), c)

\* s.split(c, 1) for an s that contains c
SplitOnce(s, c) ==
    LET i == IndexOf(s, c)
    IN  <<SubSeq(s, 1, i - 1), SubSeq(s, i + 1, Len(s))>>

\* c.join(parts)
RECURSIVE Join(_, _)
Join(parts, c) ==
    IF parts = <<>> THEN <<>>
    ELSE IF Len(parts) = 1 THEN parts[1]
    ELSE parts[1] \o <<c>> \o Join(Tail(parts), c)

-----------------------------------------------------------------------------
(* Constants of slurm_utils.py                                             *)

TRES_CPU_ID == 1
TRES_MEM_ID == 2

JOB_STATE_COMPLETED == 3
JOB_STATE_CANCELLED == 4
JOB_STATE_FAILED    == 5
JOB_STATE_TIMEOUT   == 6
JOB_STATE_NODE_FAIL == 7
JOB_STATE_PREEMPTED == 8

FINISHED_STATES ==
    {JOB_STATE_COMPLETED, JOB_STATE_FAILED, JOB_STATE_TIMEOUT,
     JOB_STATE_CANCELLED, JOB_STATE_NODE_FAIL, JOB_STATE_PREEMPTED}

SUCCESS_STATES == {JOB_STATE_COMPLETED}

StateNameKeys ==
    {"completed", "cancelled", "failed", "timeout", "node_fail", "preempted"}

\* STATE_NAMES.get(state): the name, or None for a state that has none.
STATE_NAMES_get(state) ==
    CASE state = JOB_STATE_COMPLETED -> "completed"
      [] state = JOB_STATE_CANCELLED -> "cancelled"
      [] state = JOB_STATE_FAILED    -> "failed"
      [] state = JOB_STATE_TIMEOUT   -> "timeout"
      [] state = JOB_STATE_NODE_FAIL -> "node_fail"
      [] state = JOB_STATE_PREEMPTED -> "preempted"
      [] OTHER                       -> "None"

-----------------------------------------------------------------------------
(* parse_tres_value                                                        *)

\* The scan of the for loop ended without a return.
LoopEnd == [t |-> "loop-end"]

\* A mutant: the id of the pair is not compared with the requested id.
TresIdMatches_AnyId(tid, id) == TRUE

\* int(tid) == tres_id
TresIdMatches(tid, id) == tid.n = id

\* The body of the try: the first pair (in order) whose id equals tres_id
\* returns int(value); an int() failure raises ValueError out of the loop.
RECURSIVE ScanTresPairs(_, _)
ScanTresPairs(pairs, id) ==
    IF pairs = <<>> THEN LoopEnd
    ELSE LET pair == Head(pairs)
         IN  IF IndexOf(pair, "=") = 0
             THEN ScanTresPairs(Tail(pairs), id)
             ELSE LET kv  == SplitOnce(pair, "=")
                      tid == ParseInt(kv[1])
                  IN  IF IsRaise(tid) THEN tid
                      ELSE IF TresIdMatches(tid, id) THEN ParseInt(kv[2])
                      ELSE ScanTresPairs(Tail(pairs), id)

\* A mutant: the except clause names AttributeError only.
ParseTresCaught_AttrOnly == {"AttributeError"}

\* except (ValueError, AttributeError): pass
ParseTresCaught == {"ValueError", "AttributeError"}

parse_tres_value(s, id) ==
    IF ~Truthy(s) THEN PyInt(0)
    ELSE LET r == IF s.t # "str" THEN Raise("AttributeError")
                  ELSE ScanTresPairs(Split(s.s, ","), id)
         IN  IF IsRaise(r)
             THEN (IF r.exc \in ParseTresCaught THEN PyInt(0) ELSE r)
             ELSE IF r = LoopEnd THEN PyInt(0)
             ELSE r

-----------------------------------------------------------------------------
(* calculate_job_metrics (slurm_utils.py) and process_job (job_stats.py)   *)

\* float(x) if x else 0
FloatOrZero(x) == IF Truthy(x) THEN ToFloat(x) ELSE PyInt(0)

\* int(x) if x else 0
IntOrZero(x) == IF Truthy(x) THEN ToInt(x) ELSE PyInt(0)

\* A mutant: the value is used as it is, None included.
OrZero_NoCoerce(x) == x

\* x or 0
OrZero(x) == IF Truthy(x) THEN x ELSE PyInt(0)

\* A mutant: a negative difference is replaced by 0.
TimeDiff_Clamped(later, earlier) ==
    IF Truthy(later) /\ Truthy(earlier) /\ later.n * earlier.d
                                              >= earlier.n * later.d
    THEN PySub(later, earlier) ELSE PyInt(0)

\* A mutant: the difference is taken whenever the later timestamp is set.
TimeDiff_LaterOnly(later, earlier) ==
    IF Truthy(later) THEN PySub(later, earlier) ELSE PyInt(0)

\* later - earlier if later and earlier else 0
TimeDiff(later, earlier) ==
    IF Truthy(later) /\ Truthy(earlier) THEN PySub(later, earlier)
    ELSE PyInt(0)

\* A mutant: an uncomputable ratio is reported as 0.
EffRatio_ZeroForNone(num, den) ==
    IF CmpRaises(den) THEN Raise("TypeError")
    ELSE IF GtZero(den) THEN PyMul(PyDiv(num, den), PyInt(100))
    ELSE PyInt(0)

\* (num / den * 100) if den > 0 else None
EffRatio(num, den) ==
    IF IsRaise(den) THEN den
    ELSE IF CmpRaises(den) THEN Raise("TypeError")
    ELSE IF GtZero(den) THEN PyMul(PyDiv(num, den), PyInt(100))
    ELSE None

\* A mutant: the direct column is never consulted.
ReqCpus_NoFallback(tres_req, cpus_req_col) ==
    parse_tres_value(tres_req, TRES_CPU_ID)

\* req_cpus = parse_tres_value(tres_req, TRES_CPU_ID), falling back to the
\* direct column (or 0) when that is 0.
ReqCpus(tres_req, cpus_req_col) ==
    LET req_cpus == parse_tres_value(tres_req, TRES_CPU_ID)
    IN  IF IsRaise(req_cpus) THEN req_cpus
        ELSE IF req_cpus.n = 0 THEN OrZero(cpus_req_col)
        ELSE req_cpus

\* A mutant: the megabytes are taken for kilobytes.
ReqMem_Kilobytes(tres_req) ==
    PyMul(parse_tres_value(tres_req, TRES_MEM_ID), PyInt(1024))

\* reqmem = parse_tres_value(tres_req, TRES_MEM_ID) * 1024 * 1024
ReqMem(tres_req) ==
    PyMul(PyMul(parse_tres_value(tres_req, TRES_MEM_ID), PyInt(1024)),
          PyInt(1024))

\* A mutant: every finished state counts as a success.
IsSuccess_AnyFinished(state) ==
    state.t = "int" /\ state.n \in FINISHED_STATES

\* state in SUCCESS_STATES
IsSuccess(state) == state.t = "int" /\ state.n \in SUCCESS_STATES

\* A mutant: the microseconds are left out.
SecondsWithUsec_Dropped(sec, usec) == sec

\* total_user_sec + (total_user_usec / 1_000_000)
SecondsWithUsec(sec, usec) == PyAdd(sec, PyDiv(usec, PyInt(1000000)))

\* The fields of a result whose computation can raise.
ComputedFields(m) == DOMAIN m \ {"t", "is_success"}

\* The function's outcome: the exception if one was raised, else the dict.
Outcome(m) ==
    IF \E f \in ComputedFields(m) : IsRaise(m[f])
    THEN m[CHOOSE f \in ComputedFields(m) : IsRaise(m[f])]
    ELSE m

calculate_job_metrics(r) ==
    LET time_submit     == FloatOrZero(r.time_submit)
        time_start      == FloatOrZero(r.time_start)
        time_end        == FloatOrZero(r.time_end)
        total_user_sec  == FloatOrZero(r.total_user_sec)
        total_sys_sec   == FloatOrZero(r.total_sys_sec)
        total_user_usec == FloatOrZero(r.total_user_usec)
        total_sys_usec  == FloatOrZero(r.total_sys_usec)
        nodes_alloc     == IntOrZero(r.nodes_alloc)
        timelimit       == OrZero(r.timelimit)
        total_user == SecondsWithUsec(total_user_sec, total_user_usec)
        total_sys  == SecondsWithUsec(total_sys_sec, total_sys_usec)
        elapsed       == TimeDiff(time_end, time_start)
        wait_time     == TimeDiff(time_start, time_submit)
        total_cpu     == PyAdd(total_user, total_sys)
        timelimit_sec == PyMul(timelimit, PyInt(60))
        req_cpus      == ReqCpus(r.tres_req, r.cpus_req)
        maxrss        == IntOrZero(r.max_mem_bytes)
        reqmem        == ReqMem(r.tres_req)
        cpu_requested == PyMul(elapsed, req_cpus)
    IN  Outcome(
        [t             |-> "metrics",
         job_db_inx    |-> r.job_db_inx,
         id_job        |-> r.id_job,
         username      |-> r.username,
         state         |-> r.state,
         exit_code     |-> OrZero(r.exit_code),
         time_submit   |-> time_submit,
         time_start    |-> time_start,
         time_end      |-> time_end,
         elapsed       |-> elapsed,
         wait_time     |-> wait_time,
         timelimit_sec |-> timelimit_sec,
         total_user    |-> total_user,
         total_sys     |-> total_sys,
         total_cpu     |-> total_cpu,
         req_cpus      |-> req_cpus,
         maxrss        |-> maxrss,
         reqmem        |-> reqmem,
         cpu_requested |-> cpu_requested,
         cpu_eff       |-> EffRatio(total_cpu, cpu_requested),
         mem_eff       |-> EffRatio(maxrss, reqmem),
         time_eff      |-> EffRatio(elapsed, timelimit_sec),
         user_cpu_pct  |-> EffRatio(total_user, total_cpu),
         nodes_alloc   |-> nodes_alloc,
         is_success    |-> IsSuccess(r.state)])

\* job_stats.process_job: the per-job report's calculator.
process_job(r) ==
    LET time_submit    == FloatOrZero(r.time_submit)
        time_start     == FloatOrZero(r.time_start)
        time_end       == FloatOrZero(r.time_end)
        total_user_sec == FloatOrZero(r.total_user_sec)
        total_sys_sec  == FloatOrZero(r.total_sys_sec)
        total_cpu_usec == FloatOrZero(r.total_cpu_usec)
        nodes_alloc    == IntOrZero(r.nodes_alloc)
        alloc_cpus     == OrZero(r.alloc_cpus)
        timelimit      == OrZero(r.timelimit)
        elapsed        == TimeDiff(time_end, time_start)
        wait_time      == TimeDiff(time_start, time_submit)
        total_cpu      == PyAdd(PyAdd(total_user_sec, total_sys_sec),
                                PyDiv(total_cpu_usec, PyInt(1000000)))
        timelimit_sec  == PyMul(timelimit, PyInt(60))
        maxrss         == IntOrZero(r.max_mem_bytes)
        reqmem         == ReqMem(r.tres_req)
        cpu_allocated  == PyMul(elapsed, alloc_cpus)
        total_cpu_time == PyAdd(total_user_sec, total_sys_sec)
    IN  Outcome(
        [t             |-> "job",
         job_id        |-> r.id_job,
         username      |-> r.username,
         state         |-> r.state,
         exit_code     |-> OrZero(r.exit_code),
         is_success    |-> IsSuccess(r.state),
         elapsed_sec   |-> elapsed,
         wait_sec      |-> wait_time,
         timelimit_sec |-> timelimit_sec,
         cpu_eff_pct   |-> EffRatio(total_cpu, cpu_allocated),
         mem_eff_pct   |-> EffRatio(maxrss, reqmem),
         time_eff_pct  |-> EffRatio(elapsed, timelimit_sec),
         total_cpu_sec |-> total_cpu,
         user_cpu_sec  |-> total_user_sec,
         sys_cpu_sec   |-> total_sys_sec,
         user_cpu_pct  |-> EffRatio(total_user_sec, total_cpu_time),
         maxrss_bytes  |-> maxrss,
         reqmem_bytes  |-> reqmem,
         alloccpus     |-> alloc_cpus,
         nodes         |-> nodes_alloc])

\* The columns of the job report that output_csv passes through
\* format_value.
JobColumns ==
    <<"elapsed_sec", "wait_sec", "timelimit_sec", "cpu_eff_pct",
      "mem_eff_pct", "time_eff_pct", "total_cpu_sec", "user_cpu_sec",
      "sys_cpu_sec", "user_cpu_pct", "maxrss_bytes", "reqmem_bytes">>

\* job.get("faculty", "unknown")
FacultyOf(j) == IF "faculty" \in DOMAIN j THEN j.faculty ELSE "unknown"

\* job_stats.output_csv(jobs, outfile, include_faculty): the header line,
\* then one line per job.
job_stats_output_csv(jobs, include_faculty) ==
    <<[header |-> TRUE, include_faculty |-> include_faculty,
       cells |-> JobColumns]>> \o
    [i \in 1..Len(jobs) |->
       [header      |-> FALSE,
        include_faculty |-> include_faculty,
        job_id      |-> Str(jobs[i].job_id),
        username    |-> jobs[i].username,
        faculty     |-> IF include_faculty THEN FacultyOf(jobs[i]) ELSE "",
        state       |-> Str(jobs[i].state),
        exit_code   |-> Str(jobs[i].exit_code),
        is_success  |-> IF jobs[i].is_success THEN <<"1">> ELSE <<"0">>,
        cells       |->
          [c \in 1..Len(JobColumns) |-> format_value(jobs[i][JobColumns[c]])],
        alloccpus   |-> Str(jobs[i].alloccpus),
        nodes       |-> Str(jobs[i].nodes)]]

-----------------------------------------------------------------------------
(* fetch_job_data: the SQL aggregation of a job's steps                    *)

\* SUM(expr) over a set of step ids.
RECURSIVE SumSteps(_, _, _)
SumSteps(ids, st, col) ==
    IF ids = {} THEN 0
    ELSE LET id == CHOOSE x \in ids : TRUE
         IN  st[id][col] + SumSteps(ids \ {id}, st, col)

\* The ids named by special_steps.values(): the NOT IN (...) list.
ExcludeIds(special) == {special[k] : k \in DOMAIN special}

\* SUM(CASE WHEN s.id_step NOT IN (exclude_ids) THEN s.col ELSE 0 END)
RegularSum(st, special, col) ==
    SumSteps(DOMAIN st \ ExcludeIds(special), st, col)

\* MAX(CASE WHEN s.id_step = batch_id THEN s.col END): NULL without a batch
\* step.
BatchValue(st, special, col) ==
    IF special.batch \in DOMAIN st THEN PyInt(st[special.batch][col])
    ELSE None

\* A mutant: the batch value is added to the regular-step sum.
CoalesceCpu_Summed(regular, batch) ==
    PyInt(regular + (IF batch = None THEN 0 ELSE batch.n))

\* COALESCE(NULLIF(regular, 0), batch, 0)
CoalesceCpu(regular, batch) ==
    IF regular # 0 THEN PyInt(regular)
    ELSE IF batch # None THEN batch
    ELSE PyInt(0)

\* SUBSTRING_INDEX(s, delim, -1): what follows the last occurrence of the
\* three-character delim; all of s if delim does not occur.
AfterLast(s, delim) ==
    LET at(i) == i + 2 <= Len(s) /\ SubSeq(s, i, i + 2) = delim
    IN  IF \E i \in 1..Len(s) : at(i)
        THEN LET i == CHOOSE k \in 1..Len(s) :
                          at(k) /\ \A j \in (k + 1)..Len(s) : ~at(j)
             IN  SubSeq(s, i + 3, Len(s))
        ELSE s

\* SUBSTRING_INDEX(s, c, 1): what precedes the first c; all of s without c.
BeforeFirst(s, c) ==
    LET i == IndexOf(s, c) IN IF i = 0 THEN s ELSE SubSeq(s, 1, i - 1)

\* CAST(s AS UNSIGNED): the value of the leading digits, 0 without any.
RECURSIVE LeadingDigits(_)
LeadingDigits(s) ==
    IF s = <<>> \/ s[1] \notin Digits THEN <<>>
    ELSE <<s[1]>> \o LeadingDigits(Tail(s))

CastUnsigned(s) == DigitsToNat(LeadingDigits(s))

\* The memory value of one step's tres_usage_in_max.
StepMem(usage) ==
    CastUnsigned(BeforeFirst(AfterLast(<<",">> \o usage, <<",", "2", "=">>),
                             ","))

\* A mutant: the maximum is taken over the regular steps only.
MaxOver_RegularOnly(ids, st) ==
    LET vals == {StepMem(st[id].tres_usage_in_max) : id \in {i \in ids : i >= 0}}
    IN  IF vals = {} THEN 0 ELSE CHOOSE v \in vals : \A w \in vals : w <= v

RECURSIVE MaxOver(_, _)
MaxOver(ids, st) ==
    LET id   == CHOOSE x \in ids : TRUE
        v    == StepMem(st[id].tres_usage_in_max)
        rest == MaxOver(ids \ {id}, st)
    IN  IF ids = {id} THEN v ELSE IF v >= rest THEN v ELSE rest

\* MAX(CAST(... AS UNSIGNED)) over the job's steps; NULL for a job without
\* steps (LEFT JOIN).
MaxMemBytes(st) ==
    IF DOMAIN st = {} THEN None ELSE PyInt(MaxOver(DOMAIN st, st))

\* The WHERE clause.
InWindow(j, window) ==
    /\ j.time_submit >= window.since
    /\ j.time_submit < window.until
    /\ j.time_start > 0
    /\ j.time_end > 0
    /\ j.time_end >= j.time_start

\* slurm_utils.fetch_job_data for one job: the row of the result set, NoRow
\* if the WHERE clause drops the job.  Without a 'batch' entry the query text
\* holds "s.id_step = None", which the server rejects.
fetch_job_data(j, st, special, window) ==
    IF "batch" \notin DOMAIN special THEN Raise("ProgrammingError")
    ELSE IF ~InWindow(j, window) THEN NoRow
    ELSE [t               |-> "row",
          job_db_inx      |-> PyInt(j.job_db_inx),
          id_job          |-> PyInt(j.id_job),
          username        |-> PyStr(j.user),
          state           |-> PyInt(j.state),
          exit_code       |-> PyInt(j.exit_code),
          time_submit     |-> PyInt(j.time_submit),
          time_start      |-> PyInt(j.time_start),
          time_end        |-> PyInt(j.time_end),
          cpus_req        |-> PyInt(j.cpus_req),
          tres_req        |-> PyStr(j.tres_req),
          timelimit       |-> PyInt(j.timelimit),
          nodes_alloc     |-> PyInt(j.nodes_alloc),
          total_user_sec  |-> CoalesceCpu(RegularSum(st, special, "user_sec"),
                                          BatchValue(st, special, "user_sec")),
          total_sys_sec   |-> CoalesceCpu(RegularSum(st, special, "sys_sec"),
                                          BatchValue(st, special, "sys_sec")),
          total_user_usec |-> CoalesceCpu(RegularSum(st, special, "user_usec"),
                                          BatchValue(st, special, "user_usec")),
          total_sys_usec  |-> CoalesceCpu(RegularSum(st, special, "sys_usec"),
                                          BatchValue(st, special, "sys_usec")),
          max_mem_bytes   |-> MaxMemBytes(st)]

\* The steps with the column cpu_usec = user_usec + sys_usec added.
WithCpuUsec(st) ==
    [id \in DOMAIN st |->
        [user_sec |-> st[id].user_sec, sys_sec |-> st[id].sys_sec,
         cpu_usec |-> st[id].user_usec + st[id].sys_usec]]

\* job_stats.fetch_job_data for one job: microseconds are summed as
\* user_usec + sys_usec and there is no job_db_inx column.
job_stats_fetch_job_data(j, st, special, window) ==
    IF "batch" \notin DOMAIN special THEN Raise("ProgrammingError")
    ELSE IF ~InWindow(j, window) THEN NoRow
    ELSE LET su == WithCpuUsec(st)
         IN  [t              |-> "row",
              id_job         |-> PyInt(j.id_job),
              username       |-> PyStr(j.user),
              state          |-> PyInt(j.state),
              exit_code      |-> PyInt(j.exit_code),
              time_submit    |-> PyInt(j.time_submit),
              time_start     |-> PyInt(j.time_start),
              time_end       |-> PyInt(j.time_end),
              alloc_cpus     |-> PyInt(j.cpus_req),
              tres_req       |-> PyStr(j.tres_req),
              timelimit      |-> PyInt(j.timelimit),
              nodes_alloc    |-> PyInt(j.nodes_alloc),
              total_user_sec |-> CoalesceCpu(RegularSum(st, special, "user_sec"),
                                             BatchValue(st, special, "user_sec")),
              total_sys_sec  |-> CoalesceCpu(RegularSum(st, special, "sys_sec"),
                                             BatchValue(st, special, "sys_sec")),
              total_cpu_usec |-> CoalesceCpu(RegularSum(su, special, "cpu_usec"),
                                             BatchValue(su, special, "cpu_usec")),
              max_mem_bytes  |-> MaxMemBytes(st)]

\* A mutant: no row is skipped.
IsFinished_AnyState(r) == TRUE

\* main: if state not in FINISHED_STATES: continue
IsFinished(r) == r.state.t = "int" /\ r.state.n \in FINISHED_STATES

-----------------------------------------------------------------------------
(* aggregate_stats: init_stats_dict, update_stats,                         *)
(* calculate_final_efficiencies                                            *)

\* A fresh statistics dictionary of a group.
init_stats_dict ==
    [job_count                |-> PyInt(0),
     job_count_success        |-> PyInt(0),
     job_count_failed         |-> PyInt(0),
     count_by_state           |-> [name \in StateNameKeys |-> PyInt(0)],
     exit_codes               |-> <<>>,
     total_elapsed            |-> PyInt(0),
     total_cpu                |-> PyInt(0),
     total_user_cpu           |-> PyInt(0),
     total_sys_cpu            |-> PyInt(0),
     total_maxrss             |-> PyInt(0),
     total_reqmem             |-> PyInt(0),
     total_reqcpus            |-> PyInt(0),
     total_timelimit          |-> PyInt(0),
     total_nodes              |-> PyInt(0),
     total_wait               |-> PyInt(0),
     sum_cpu_requested        |-> PyInt(0),
     sum_job_cpu_eff          |-> PyInt(0),
     sum_job_mem_eff          |-> PyInt(0),
     sum_job_time_eff         |-> PyInt(0),
     count_cpu_eff            |-> PyInt(0),
     count_mem_eff            |-> PyInt(0),
     count_time_eff           |-> PyInt(0),
     success_total_elapsed    |-> PyInt(0),
     success_total_cpu        |-> PyInt(0),
     success_total_maxrss     |-> PyInt(0),
     success_total_reqmem     |-> PyInt(0),
     success_sum_cpu_requested |-> PyInt(0),
     success_sum_job_cpu_eff  |-> PyInt(0),
     success_sum_job_mem_eff  |-> PyInt(0),
     success_sum_job_time_eff |-> PyInt(0),
     success_count_cpu_eff    |-> PyInt(0),
     success_count_mem_eff    |-> PyInt(0),
     success_count_time_eff   |-> PyInt(0),
     success_total_timelimit  |-> PyInt(0)]

\* A mutant: the running sum is assigned, not accumulated.
AddTo_Assign(total, x) == x

\* total += x
AddTo(total, x) == PyAdd(total, x)

\* A mutant: under the condition the running sum is replaced by x.
AddIf_Overwrite(cond, total, x) == IF cond THEN x ELSE total

\* total += x, under a condition
AddIf(cond, total, x) == IF cond THEN AddTo(total, x) ELSE total

\* A mutant: the count of a key is set to 1.
CountKey_Set(d, k) == (k :> PyInt(1)) @@ d

\* d[k] = d.get(k, 0) + 1
CountKey(d, k) ==
    (k :> PyAdd(IF k \in DOMAIN d THEN d[k] ELSE PyInt(0), PyInt(1))) @@ d

\* update_stats(metrics, stats, collate_key): the dict of groups with the
\* job folded into the group of collate_key.
update_stats(m, groups, collate_key) ==
    LET s          == groups[collate_key]
        is_success == m.is_success
        state_name == STATE_NAMES_get(m.state.n)
        cpu        == m.cpu_eff # None
        mem        == m.mem_eff # None
        time       == m.time_eff # None
        One        == PyInt(1)
    IN  [groups EXCEPT ![collate_key] =
          [s EXCEPT
            !.job_count         = AddTo(@, One),
            !.job_count_success = AddIf(is_success, @, One),
            !.job_count_failed  = AddIf(~is_success, @, One),
            !.count_by_state    =
                IF state_name # "None"
                THEN [@ EXCEPT ![state_name] = AddTo(@, One)] ELSE @,
            !.exit_codes        = CountKey(@, m.exit_code),
            !.total_elapsed     = AddTo(@, m.elapsed),
            !.total_cpu         = AddTo(@, m.total_cpu),
            !.total_user_cpu    = AddTo(@, m.total_user),
            !.total_sys_cpu     = AddTo(@, m.total_sys),
            !.total_maxrss      = AddTo(@, m.maxrss),
            !.total_reqmem      = AddTo(@, m.reqmem),
            !.total_reqcpus     = AddTo(@, m.req_cpus),
            !.total_timelimit   = AddTo(@, m.timelimit_sec),
            !.total_nodes       = AddTo(@, m.nodes_alloc),
            !.total_wait        = AddTo(@, m.wait_time),
            !.sum_cpu_requested = AddTo(@, m.cpu_requested),
            !.sum_job_cpu_eff   = AddIf(cpu, @, m.cpu_eff),
            !.count_cpu_eff     = AddIf(cpu, @, One),
            !.sum_job_mem_eff   = AddIf(mem, @, m.mem_eff),
            !.count_mem_eff     = AddIf(mem, @, One),
            !.sum_job_time_eff  = AddIf(time, @, m.time_eff),
            !.count_time_eff    = AddIf(time, @, One),
            !.success_total_elapsed     = AddIf(is_success, @, m.elapsed),
            !.success_total_cpu         = AddIf(is_success, @, m.total_cpu),
            !.success_total_maxrss      = AddIf(is_success, @, m.maxrss),
            !.success_total_reqmem      = AddIf(is_success, @, m.reqmem),
            !.success_sum_cpu_requested =
                AddIf(is_success, @, m.cpu_requested),
            !.success_total_timelimit   =
                AddIf(is_success, @, m.timelimit_sec),
            !.success_sum_job_cpu_eff   = AddIf(is_success /\ cpu, @, m.cpu_eff),
            !.success_count_cpu_eff     = AddIf(is_success /\ cpu, @, One),
            !.success_sum_job_mem_eff   = AddIf(is_success /\ mem, @, m.mem_eff),
            !.success_count_mem_eff     = AddIf(is_success /\ mem, @, One),
            !.success_sum_job_time_eff  =
                AddIf(is_success /\ time, @, m.time_eff),
            !.success_count_time_eff    = AddIf(is_success /\ time, @, One)]]

\* A mutant: the weighted efficiency is left as a fraction.
WeightedEff_Fraction(num, den) ==
    IF GtZero(den) THEN PyDiv(num, den) ELSE None

\* (num / den * 100) if den > 0 else None
WeightedEff(num, den) ==
    IF GtZero(den) THEN PyMul(PyDiv(num, den), PyInt(100)) ELSE None

\* A mutant: an average over no jobs is reported as 0.
Average_ZeroForEmpty(total, count) ==
    IF GtZero(count) THEN PyDiv(total, count) ELSE PyInt(0)

\* (total / count) if count > 0 else None
Average(total, count) ==
    IF GtZero(count) THEN PyDiv(total, count) ELSE None

\* A mutant: the per-job ratios are averaged over all the jobs of the group.
DerivedFields_AvgOverAllJobs(s) ==
    LET total_cpu_time == PyAdd(s.total_user_cpu, s.total_sys_cpu)
    IN  [weighted_cpu_eff  |-> WeightedEff(s.total_cpu, s.sum_cpu_requested),
         weighted_mem_eff  |-> WeightedEff(s.total_maxrss, s.total_reqmem),
         weighted_time_eff |->
             WeightedEff(s.total_elapsed, s.total_timelimit),
         avg_cpu_eff  |-> Average(s.sum_job_cpu_eff, s.job_count),
         avg_mem_eff  |-> Average(s.sum_job_mem_eff, s.job_count),
         avg_time_eff |-> Average(s.sum_job_time_eff, s.job_count),
         avg_wait     |-> Average(s.total_wait, s.job_count),
         avg_elapsed  |-> Average(s.total_elapsed, s.job_count),
         avg_cpu      |-> Average(s.total_cpu, s.job_count),
         avg_reqcpus  |-> Average(s.total_reqcpus, s.job_count),
         avg_reqmem   |-> Average(s.total_reqmem, s.job_count),
         avg_maxrss   |-> Average(s.total_maxrss, s.job_count),
         user_cpu_pct |-> WeightedEff(s.total_user_cpu, total_cpu_time),
         sys_cpu_pct  |-> WeightedEff(s.total_sys_cpu, total_cpu_time),
         success_weighted_cpu_eff  |->
             WeightedEff(s.success_total_cpu, s.success_sum_cpu_requested),
         success_weighted_mem_eff  |->
             WeightedEff(s.success_total_maxrss, s.success_total_reqmem),
         success_weighted_time_eff |->
             WeightedEff(s.success_total_elapsed, s.success_total_timelimit),
         success_avg_cpu_eff  |->
             Average(s.success_sum_job_cpu_eff, s.success_count_cpu_eff),
         success_avg_mem_eff  |->
             Average(s.success_sum_job_mem_eff, s.success_count_mem_eff),
         success_avg_time_eff |->
             Average(s.success_sum_job_time_eff, s.success_count_time_eff)]

\* The fields calculate_final_efficiencies assigns.
DerivedFields(s) ==
    LET total_cpu_time == PyAdd(s.total_user_cpu, s.total_sys_cpu)
    IN  [weighted_cpu_eff  |-> WeightedEff(s.total_cpu, s.sum_cpu_requested),
         weighted_mem_eff  |-> WeightedEff(s.total_maxrss, s.total_reqmem),
         weighted_time_eff |->
             WeightedEff(s.total_elapsed, s.total_timelimit),
         avg_cpu_eff  |-> Average(s.sum_job_cpu_eff, s.count_cpu_eff),
         avg_mem_eff  |-> Average(s.sum_job_mem_eff, s.count_mem_eff),
         avg_time_eff |-> Average(s.sum_job_time_eff, s.count_time_eff),
         avg_wait     |-> Average(s.total_wait, s.job_count),
         avg_elapsed  |-> Average(s.total_elapsed, s.job_count),
         avg_cpu      |-> Average(s.total_cpu, s.job_count),
         avg_reqcpus  |-> Average(s.total_reqcpus, s.job_count),
         avg_reqmem   |-> Average(s.total_reqmem, s.job_count),
         avg_maxrss   |-> Average(s.total_maxrss, s.job_count),
         user_cpu_pct |-> WeightedEff(s.total_user_cpu, total_cpu_time),
         sys_cpu_pct  |-> WeightedEff(s.total_sys_cpu, total_cpu_time),
         success_weighted_cpu_eff  |->
             WeightedEff(s.success_total_cpu, s.success_sum_cpu_requested),
         success_weighted_mem_eff  |->
             WeightedEff(s.success_total_maxrss, s.success_total_reqmem),
         success_weighted_time_eff |->
             WeightedEff(s.success_total_elapsed, s.success_total_timelimit),
         success_avg_cpu_eff  |->
             Average(s.success_sum_job_cpu_eff, s.success_count_cpu_eff),
         success_avg_mem_eff  |->
             Average(s.success_sum_job_mem_eff, s.success_count_mem_eff),
         success_avg_time_eff |->
             Average(s.success_sum_job_time_eff, s.success_count_time_eff)]

\* A mutant: the averages replace the running sums they were computed from.
calculate_final_efficiencies_Consuming(s) ==
    LET derived == DerivedFields(s)
    IN  [f \in DOMAIN s \cup DOMAIN derived |->
            IF f \in DOMAIN derived THEN derived[f]
            ELSE IF f = "total_elapsed" THEN derived.avg_elapsed
            ELSE s[f]]

\* calculate_final_efficiencies(s): s with its derived fields (re)assigned.
calculate_final_efficiencies(s) ==
    LET derived == DerivedFields(s)
    IN  [f \in DOMAIN s \cup DOMAIN derived |->
            IF f \in DOMAIN derived THEN derived[f] ELSE s[f]]

\* if key not in groups: groups[key] = init_stats_dict()
WithGroup(groups, key) ==
    IF key \in DOMAIN groups THEN groups
    ELSE (key :> init_stats_dict) @@ groups

\* A mutant: the groups are sorted by ascending job_count.
SortKey_Ascending(s) == s.job_count.n

\* key=lambda x: -x[1]["job_count"]
SortKey(s) == -s.job_count.n

\* sorted(): a stable sort of the keys by SortKey of their group.
RECURSIVE Sorted(_, _)
Sorted(order, groups) ==
    IF order = <<>> THEN <<>>
    ELSE LET front == Sorted(SubSeq(order, 1, Len(order) - 1), groups)
             x     == order[Len(order)]
             n     == Cardinality({i \in 1..Len(front) :
                         SortKey(groups[front[i]]) <= SortKey(groups[x])})
         IN  SubSeq(front, 1, n) \o <<x>> \o SubSeq(front, n + 1, Len(front))

\* The columns of the group report after the key: the header name and the
\* field of the group it is taken from (count_X is count_by_state[X]).
GroupColumns ==
    << <<"job_count", "job_count">>,
       <<"job_count_success", "job_count_success">>,
       <<"job_count_failed", "job_count_failed">>,
       <<"count_completed", "completed">>,
       <<"count_cancelled", "cancelled">>,
       <<"count_failed", "failed">>,
       <<"count_timeout", "timeout">>,
       <<"count_node_fail", "node_fail">>,
       <<"count_preempted", "preempted">>,
       <<"total_elapsed_sec", "total_elapsed">>,
       <<"avg_elapsed_sec", "avg_elapsed">>,
       <<"total_cpu_sec", "total_cpu">>,
       <<"avg_cpu_sec", "avg_cpu">>,
       <<"total_user_cpu_sec", "total_user_cpu">>,
       <<"total_sys_cpu_sec", "total_sys_cpu">>,
       <<"user_cpu_pct", "user_cpu_pct">>,
       <<"sys_cpu_pct", "sys_cpu_pct">>,
       <<"total_maxrss_bytes", "total_maxrss">>,
       <<"avg_maxrss_bytes", "avg_maxrss">>,
       <<"total_reqmem_bytes", "total_reqmem">>,
       <<"avg_reqmem_bytes", "avg_reqmem">>,
       <<"total_reqcpus", "total_reqcpus">>,
       <<"avg_reqcpus", "avg_reqcpus">>,
       <<"total_nodes", "total_nodes">>,
       <<"total_wait_sec", "total_wait">>,
       <<"avg_wait_sec", "avg_wait">>,
       <<"weighted_cpu_eff_pct", "weighted_cpu_eff">>,
       <<"avg_cpu_eff_pct", "avg_cpu_eff">>,
       <<"weighted_mem_eff_pct", "weighted_mem_eff">>,
       <<"avg_mem_eff_pct", "avg_mem_eff">>,
       <<"weighted_time_eff_pct", "weighted_time_eff">>,
       <<"avg_time_eff_pct", "avg_time_eff">>,
       <<"success_weighted_cpu_eff_pct", "success_weighted_cpu_eff">>,
       <<"success_avg_cpu_eff_pct", "success_avg_cpu_eff">>,
       <<"success_weighted_mem_eff_pct", "success_weighted_mem_eff">>,
       <<"success_avg_mem_eff_pct", "success_avg_mem_eff">>,
       <<"success_weighted_time_eff_pct", "success_weighted_time_eff">>,
       <<"success_avg_time_eff_pct", "success_avg_time_eff">> >>

\* s["count_by_state"][field] or s[field]
GroupCell(s, field) ==
    IF field \in StateNameKeys THEN s.count_by_state[field] ELSE s[field]

\* ";".join(f"{k}:{v}" for k, v in sorted(s["exit_codes"].items()))
RECURSIVE ExitCodesStr(_)
ExitCodesStr(d) ==
    IF DOMAIN d = {} THEN <<>>
    ELSE LET k    == CHOOSE x \in DOMAIN d : \A y \in DOMAIN d : x.n <= y.n
             rest == [x \in DOMAIN d \ {k} |-> d[x]]
         IN  Str(k) \o <<":">> \o Str(d[k]) \o
             (IF DOMAIN rest = {} THEN <<>>
              ELSE <<";">> \o ExitCodesStr(rest))

\* output_csv(stats, collate_label): the header line, then one line per
\* group in sorted order: the key, a cell per column and the exit codes.
output_csv(groups, order, label) ==
    LET keys == Sorted(order, groups)
    IN  <<[header |-> TRUE, label |-> label, key |-> "",
           job_count |-> None,
           cells |-> [i \in 1..Len(GroupColumns) |-> GroupColumns[i][1]],
           exit_codes |-> "exit_codes"]>> \o
        [i \in 1..Len(keys) |->
           [header |-> FALSE, label |-> label, key |-> keys[i],
            job_count |-> groups[keys[i]].job_count,
            cells |->
              [c \in 1..Len(GroupColumns) |->
                 format_value(GroupCell(groups[keys[i]],
                                        GroupColumns[c][2]))],
            exit_codes |-> ExitCodesStr(groups[keys[i]].exit_codes)]]

-----------------------------------------------------------------------------
(* slurm_utils: LdapClient.search and get_user_attribute                   *)

\* The capacity of the error log (len(error_log) < 3) and the number of
\* passes of the search loop (range(2)).
MaxLdapErrors  == 3
SearchAttempts == 2

\* The LDAP server as the client sees it: the entries of its directory,
\* whether its answers may carry a referral, and the errors that search_s
\* and simple_bind_s can raise against it.
LdapServer(entries, referrals, search_faults, connect_faults) ==
    [entries |-> entries, referrals |-> referrals,
     search_faults |-> search_faults, connect_faults |-> connect_faults]

\* What search_s returns for a user: the user's entry if the directory has
\* one, possibly followed by a referral (an item whose dn is None).
SearchResults(server, username) ==
    LET real == IF username \in DOMAIN server.entries
                THEN <<[is_referral |-> FALSE,
                        attrs |-> server.entries[username]]>>
                ELSE <<>>
    IN  {real} \cup
        (IF server.referrals
         THEN {real \o <<[is_referral |-> TRUE, attrs |-> <<>>]>>}
         ELSE {})

\* The ways a call of LdapClient.search ends.  events lists what the call
\* did, in order: "connect", "search", "reconnect", each with its result.
SearchReturned(results, conn, events) ==
    [t |-> "results", results |-> results, exc |-> "", conn |-> conn,
     events |-> events]
SearchRaised(exc, conn, events) ==
    [t |-> "raise", results |-> <<>>, exc |-> exc, conn |-> conn,
     events |-> events]

\* A mutant: a lost connection is answered by a reconnect on every pass.
ReconnectOn_EveryAttempt(attempt) == TRUE

\* if attempt == 0: reconnect; else: raise
ReconnectOn(attempt) == attempt = 0

\* for attempt in range(2): the passes from `attempt` on, with the
\* connection open.  search_s returns, raises SERVER_DOWN or raises another
\* LDAP error; _connect succeeds or raises SERVER_DOWN.  A loop that runs
\* out of passes returns None.
RECURSIVE SearchLoop(_, _, _, _)
SearchLoop(server, attempt, results, events) ==
    IF attempt >= SearchAttempts
    THEN {SearchReturned(<<>>, "open", Append(events, "fell through"))}
    ELSE {SearchReturned(results, "open", Append(events, "search ok"))}
         \cup
         {SearchRaised(exc, "open", Append(events, "search " \o exc)) :
            exc \in server.search_faults \ {"SERVER_DOWN"}}
         \cup
         (IF "SERVER_DOWN" \notin server.search_faults THEN {}
          ELSE LET down == Append(events, "search SERVER_DOWN")
               IN  IF ReconnectOn(attempt)
                   THEN {SearchRaised(exc, "open",
                                      Append(down, "reconnect " \o exc)) :
                           exc \in server.connect_faults}
                        \cup SearchLoop(server, attempt + 1, results,
                                        Append(down, "reconnect ok"))
                   ELSE {SearchRaised("SERVER_DOWN", "open", down)})

\* LdapClient.search: connect first when there is no connection, then the
\* search loop.
LdapClient_search(server, conn, results) ==
    IF conn = "none"
    THEN {SearchRaised(exc, "none", <<"connect " \o exc>>) :
            exc \in server.connect_faults}
         \cup SearchLoop(server, 0, results, <<"connect ok">>)
    ELSE SearchLoop(server, 0, results, <<>>)

\* The call did not reach LdapClient.search (a cache hit).
NoSearch == [t |-> "no-search", results |-> <<>>, exc |-> "",
             conn |-> "none", events |-> <<>>]

\* A mutant: only a lost connection is caught at the lookup boundary.
Caught_ServerDownOnly(exc) == exc = "SERVER_DOWN"

\* except Exception
Caught(exc) == TRUE

\* A mutant: the cache is never consulted.
CacheHit_Never(key, cache) == FALSE

\* if cache_key in cache
CacheHit(key, cache) == key \in DOMAIN cache

\* A mutant: every error is logged.
LogError_Uncapped(error_log, entry) == Append(error_log, entry)

\* if len(error_log) < 3: error_log.append(...)
LogError(error_log, entry) ==
    IF Len(error_log) < MaxLdapErrors THEN Append(error_log, entry)
    ELSE error_log

\* The ways a call of get_user_attribute ends: the value returned (or the
\* exception raised), with the cache, the error log and the connection
\* after the call, the kind of resolution and the search it made.
LookupReturned(value, kind, cache, error_log, search) ==
    [t |-> "return", value |-> value, kind |-> kind, cache |-> cache,
     error_log |-> error_log, conn |-> search.conn, search |-> search]

get_user_attribute(conn, server, username, attribute, cache, error_log) ==
    LET key == <<username, attribute>>
        Cached(value) == (key :> value) @@ cache
        After(results, sr) ==
            IF sr.t = "raise"
            THEN IF Caught(sr.exc)
                 THEN LookupReturned("unknown", "exception",
                        Cached("unknown"),
                        LogError(error_log,
                                 [user |-> username, kind |-> "LDAP error",
                                  exc |-> sr.exc]), sr)
                 ELSE [t |-> "raise", value |-> "", kind |-> "exception",
                       cache |-> cache, error_log |-> error_log,
                       conn |-> sr.conn, search |-> sr]
            ELSE IF sr.results = <<>> /\ sr.events[Len(sr.events)]
                                            = "fell through"
            THEN \* results is None: iterating it raises TypeError
                 IF Caught("TypeError")
                 THEN LookupReturned("unknown", "exception",
                        Cached("unknown"),
                        LogError(error_log,
                                 [user |-> username, kind |-> "LDAP error",
                                  exc |-> "TypeError"]), sr)
                 ELSE [t |-> "raise", value |-> "", kind |-> "exception",
                       cache |-> cache, error_log |-> error_log,
                       conn |-> sr.conn, search |-> sr]
            ELSE LET entries == SelectSeq(sr.results,
                                          LAMBDA e : ~e.is_referral)
                 IN  IF Len(entries) = 0
                     THEN LookupReturned("unknown",
                            IF sr.results = <<>> THEN "no entry"
                            ELSE "referrals only",
                            Cached("unknown"),
                            LogError(error_log,
                                     [user |-> username, kind |-> "not found",
                                      exc |-> ""]), sr)
                     ELSE IF attribute \in DOMAIN entries[1].attrs
                     THEN LookupReturned(entries[1].attrs[attribute], "found",
                            Cached(entries[1].attrs[attribute]), error_log,
                            sr)
                     ELSE LookupReturned("unknown", "attribute missing",
                            Cached("unknown"), error_log, sr)
    IN  IF CacheHit(key, cache)
        THEN {[t |-> "return", value |-> cache[key], kind |-> "cached",
               cache |-> cache, error_log |-> error_log, conn |-> conn,
               search |-> NoSearch]}
        ELSE UNION {{After(results, sr) :
                        sr \in LdapClient_search(server, conn, results)} :
                      results \in SearchResults(server, username)}

-----------------------------------------------------------------------------
(* Idle values of the variable groups a specification does not exercise    *)

TresIdle ==
    /\ tres_string = None /\ tres_id = 0 /\ tres_pairs = <<>>
    /\ tres_kind = "null" /\ tres_result = NotCalled

DbIdle   ==
    /\ job = NoRow /\ steps = <<>> /\ special_steps = <<>>
    /\ row = NoRow /\ jrow = NoRow

CalcIdle == metrics = NotCalled /\ jmetrics = NotCalled

FoldIdle ==
    /\ stats = <<>> /\ group_order = <<>> /\ emitted = <<>>
    /\ jemitted = <<>>
    /\ rows_read = <<>> /\ folded = <<>> /\ prev_stats = <<>>
    /\ finalized = FALSE

LdapIdle ==
    /\ user_cache = <<>> /\ ldap_errors = <<>> /\ ldap_conn = "none"

LdapHistIdle == last_lookup = NotCalled /\ search_count = <<>>

AggIdle  == FoldIdle /\ LdapIdle /\ LdapHistIdle

RunIdle  == run = NotCalled

-----------------------------------------------------------------------------
(* SpecTres: parse_tres_value on encoded resource lists                    *)

\* Bounds of the inputs.
MaxPairs  == 2
MaxStrLen == 4

TresIds      == {1, 2, 12}
PairValues   == {0, 5, 10, -3}
RawAlphabet  == {"1", "2", "=", ",", "x", "-"}

\* Lists of at most MaxPairs (id, value) pairs with pairwise distinct ids.
PairLists ==
    {p \in UNION {[1..n -> TresIds \X PairValues] : n \in 0..MaxPairs} :
        \A i, j \in 1..Len(p) : i # j => p[i][1] # p[j][1]}

RawStrings == UNION {[1..n -> RawAlphabet] : n \in 0..MaxStrLen}

\* ",".join(f"{i}={v}" for i, v in pairs)
FormatTres(pairs) ==
    Join([k \in 1..Len(pairs) |->
            FormatInt(pairs[k][1]) \o <<"=">> \o FormatInt(pairs[k][2])], ",")

TresInit ==
    /\ RunIdle
    /\ tres_string = None
    /\ tres_id \in TresIds
    /\ tres_pairs = <<>>
    /\ tres_kind = "null"
    /\ tres_result = NotCalled
    /\ DbIdle /\ CalcIdle /\ AggIdle

\* The caller holds a list joined from well-formed pairs.
JoinTresPairs ==
    /\ tres_kind = "null" /\ tres_result = NotCalled
    /\ \E p \in PairLists :
          /\ tres_pairs' = p
          /\ tres_string' = PyStr(FormatTres(p))
    /\ tres_kind' = "joined"
    /\ UNCHANGED <<run, tres_id, tres_result, db_vars, calc_vars, agg_vars>>

\* The caller holds an arbitrary string.
RawTresString ==
    /\ tres_kind = "null" /\ tres_result = NotCalled
    /\ \E s \in RawStrings : tres_string' = PyStr(s)
    /\ tres_kind' = "raw"
    /\ UNCHANGED <<run, tres_id, tres_pairs, tres_result>>
    /\ UNCHANGED <<run, db_vars, calc_vars, agg_vars>>

\* The caller holds a value that is no string.
NonStringTres ==
    /\ tres_kind = "null" /\ tres_result = NotCalled
    /\ \E n \in {0, 7} : tres_string' = PyInt(n)
    /\ tres_kind' = "nonstr"
    /\ UNCHANGED <<run, tres_id, tres_pairs, tres_result>>
    /\ UNCHANGED <<run, db_vars, calc_vars, agg_vars>>

CallParseTres ==
    /\ tres_result = NotCalled
    /\ tres_result' = parse_tres_value(tres_string, tres_id)
    /\ UNCHANGED <<run, tres_string, tres_id, tres_pairs, tres_kind>>
    /\ UNCHANGED <<run, db_vars, calc_vars, agg_vars>>

TresNext == JoinTresPairs \/ RawTresString \/ NonStringTres \/ CallParseTres

SpecTres == TresInit /\ [][TresNext]_vars

\* The value paired with id in the pair list, 0 if id is not in it.
LookupPair(pairs, id) ==
    IF \E k \in 1..Len(pairs) : pairs[k][1] = id
    THEN pairs[CHOOSE k \in 1..Len(pairs) : pairs[k][1] = id][2]
    ELSE 0

\* C4: for a string joined from well-formed id=value pairs with unique ids,
\* parse_tres_value returns the value paired with the requested id, or 0 if
\* the id is not present, whatever the order of the pairs; for the empty
\* string and for None it returns 0.
C4_JoinedPairsDecode ==
    (tres_result # NotCalled /\ tres_kind \in {"joined", "null"})
        => tres_result = PyInt(LookupPair(tres_pairs, tres_id))

\* Reached: the requested id is the second of two pairs and its non-zero
\* value was returned.
C4_Witness ==
    /\ tres_kind = "joined" /\ Len(tres_pairs) = 2
    /\ tres_pairs[2][1] = tres_id /\ tres_pairs[2][2] # 0
    /\ tres_result = PyInt(tres_pairs[2][2])

\* What the scan of a raw string meets, stated pair by pair.
TresPairsOf(s)  == Split(s, ",")
PairHasEq(p)    == \E i \in 1..Len(p) : p[i] = "="
PairBadId(p)    == PairHasEq(p) /\ IsRaise(ParseInt(SplitOnce(p, "=")[1]))
PairMatches(p, id) ==
    PairHasEq(p) /\ ~PairBadId(p) /\ ParseInt(SplitOnce(p, "=")[1]).n = id
PairBadValue(p) == PairHasEq(p) /\ IsRaise(ParseInt(SplitOnce(p, "=")[2]))

TresIdAbsent(s, id) ==
    \A k \in 1..Len(TresPairsOf(s)) : ~PairMatches(TresPairsOf(s)[k], id)

\* An int() conversion fails at a pair the scan reaches.
TresErrorDuringScan(s, id) ==
    LET ps == TresPairsOf(s)
    IN  \E k \in 1..Len(ps) :
           /\ \A j \in 1..(k - 1) : ~PairMatches(ps[j], id) /\ ~PairBadId(ps[j])
           /\ \/ PairBadId(ps[k])
              \/ PairMatches(ps[k], id) /\ PairBadValue(ps[k])

\* C5: parse_tres_value never raises: for every string (and for None) it
\* returns an int, and it returns 0 whenever the string is empty or None, the
\* requested id is absent, or an int() conversion fails during the scan.
C5_NeverRaises ==
    tres_result # NotCalled =>
        /\ tres_result.t = "int"
        /\ ~Truthy(tres_string) => tres_result = PyInt(0)
        /\ (tres_string.t = "str" /\ TresIdAbsent(tres_string.s, tres_id))
              => tres_result = PyInt(0)
        /\ (tres_string.t = "str"
              /\ TresErrorDuringScan(tres_string.s, tres_id))
              => tres_result = PyInt(0)

\* Reached: a raw string whose scan hit a malformed pair, answered with 0.
C5_Witness ==
    /\ tres_kind = "raw"
    /\ TresErrorDuringScan(tres_string.s, tres_id)
    /\ tres_result = PyInt(0)

-----------------------------------------------------------------------------
(* SpecCalc: calculate_job_metrics on arbitrary rows                       *)

\* "1=4,2=1", "2=1", "1=2,2=2000" and a list whose CPU value is no integer,
\* "1=x".
TresCpuMem == FormatTres(<< <<1, 4>>, <<2, 1>> >>)
TresMem    == FormatTres(<< <<2, 1>> >>)
TresBigMem == FormatTres(<< <<1, 2>>, <<2, 2000>> >>)
TresBad    == <<"1", "=", "x">>

\* Rows as a caller may hand them over: every numeric field an int or None,
\* the resource list a string or None.  Timestamps include end < start and
\* start < submit.
CalcRowCore ==
    [time_submit     : {None, PyInt(0), PyInt(10), PyInt(30)},
     time_start      : {None, PyInt(0), PyInt(20)},
     time_end        : {None, PyInt(0), PyInt(10), PyInt(120)},
     cpus_req        : {None, PyInt(0), PyInt(2)},
     tres_req        : {None, PyStr(<<>>), PyStr(TresCpuMem), PyStr(TresMem),
                        PyStr(TresBigMem), PyStr(TresBad)},
     timelimit       : {None, PyInt(0), PyInt(1)},
     total_user_sec  : {None, PyInt(10)},
     total_user_usec : {None, PyInt(500000)},
     max_mem_bytes   : {None, PyInt(524288)}]

\* The fields the derived quantities do not depend on vary together.
CalcRowRest ==
    {[t |-> "row", job_db_inx |-> PyInt(1), id_job |-> PyInt(100),
      username |-> PyStr(<<"u">>), state |-> PyInt(JOB_STATE_COMPLETED),
      exit_code |-> None, nodes_alloc |-> None,
      total_sys_sec |-> None, total_sys_usec |-> None],
     [t |-> "row", job_db_inx |-> PyInt(2), id_job |-> PyInt(101),
      username |-> PyStr(<<"v">>), state |-> PyInt(JOB_STATE_FAILED),
      exit_code |-> PyInt(1), nodes_alloc |-> PyInt(1),
      total_sys_sec |-> PyInt(5), total_sys_usec |-> PyInt(500000)]}

CalcRows == {core @@ rest : core \in CalcRowCore, rest \in CalcRowRest}

CalcInit ==
    /\ RunIdle
    /\ row \in CalcRows
    /\ job = NoRow /\ steps = <<>> /\ special_steps = <<>> /\ jrow = NoRow
    /\ metrics = NotCalled /\ jmetrics = NotCalled
    /\ TresIdle /\ AggIdle

CallCalculateJobMetrics ==
    /\ row # NoRow /\ metrics = NotCalled
    /\ metrics' = calculate_job_metrics(row)
    /\ UNCHANGED <<run, db_vars, jmetrics, tres_vars, agg_vars>>

CalcNext == CallCalculateJobMetrics

SpecCalc == CalcInit /\ [][CalcNext]_vars

\* The integer a nullable integer column stands for: None counts as 0.
ColVal(x) == IF x = None THEN 0 ELSE x.n

Called == metrics # NotCalled

\* The number v equals the integer k.
NumIs(v, k) == IsNum(v) /\ v.n = k * v.d

\* C2 as stated: elapsed is never negative; it is max(0, end - start) when
\* both end > 0 and start > 0, and 0 when either is 0 or null.
C2_ElapsedClamped ==
    Called =>
        /\ metrics.t = "metrics"
        /\ metrics.elapsed.n >= 0
        /\ LET e == ColVal(row.time_end)
               b == ColVal(row.time_start)
           IN  NumIs(metrics.elapsed,
                     IF e > 0 /\ b > 0 THEN (IF e - b > 0 THEN e - b ELSE 0)
                     ELSE 0)

\* C2 amended: elapsed is end - start, unclamped, when both end and start are
\* set (non-zero, non-null), and 0 when either is 0 or null; so it is
\* non-negative exactly when the row has end >= start or a timestamp unset.
C2_ElapsedUnclamped ==
    Called =>
        /\ metrics.t = "metrics"
        /\ LET e == ColVal(row.time_end)
               b == ColVal(row.time_start)
           IN  /\ NumIs(metrics.elapsed, IF e # 0 /\ b # 0 THEN e - b ELSE 0)
               /\ (e = 0 \/ b = 0 \/ e >= b) <=> metrics.elapsed.n >= 0

\* Reached: a row with 0 < end < start, for which a negative elapsed time
\* was returned.
C2_Witness ==
    /\ Called /\ metrics.t = "metrics"
    /\ ColVal(row.time_start) = 20 /\ ColVal(row.time_end) = 10
    /\ NumIs(metrics.elapsed, -10)

\* ratio is None when den <= 0, and the float num / den * 100 otherwise.
RatioIs(ratio, num, den) ==
    IF den.n <= 0 THEN ratio = None
    ELSE /\ ratio.t = "float"
         /\ ratio.n * den.n * num.d = 100 * num.n * den.d * ratio.d

\* C3: each of cpu_eff, mem_eff and time_eff is None (not 0, not an error)
\* exactly when its denominator is <= 0 (elapsed x requested_cpu_count,
\* requested_memory_bytes, time_limit_minutes x 60), and otherwise equals
\* numerator / denominator x 100.
C3_EfficiencyNoneIffNoDenominator ==
    Called =>
        /\ metrics.t = "metrics"
        /\ RatioIs(metrics.cpu_eff, metrics.total_cpu,
                   [n |-> metrics.elapsed.n * metrics.req_cpus.n,
                    d |-> metrics.elapsed.d * metrics.req_cpus.d])
        /\ RatioIs(metrics.mem_eff, metrics.maxrss, metrics.reqmem)
        /\ RatioIs(metrics.time_eff, metrics.elapsed,
                   [n |-> ColVal(row.timelimit) * 60, d |-> 1])

\* Reached: one row gave cpu_eff = None (no CPUs requested) beside computed
\* memory and time efficiencies.
C3_Witness ==
    /\ Called /\ metrics.t = "metrics"
    /\ metrics.cpu_eff = None /\ metrics.req_cpus = PyInt(0)
    /\ metrics.elapsed.n > 0
    /\ metrics.mem_eff = [t |-> "float", n |-> 50, d |-> 1]
    /\ metrics.time_eff # None

\* C7: requested_cpu_count is the CPU (id 1) value decoded from the
\* requested-resource list when that is non-zero, and otherwise the direct
\* requested-CPU column (0 if null); cpu_requested is elapsed times it.
C7_ReqCpusPrefersTres ==
    Called =>
        /\ metrics.t = "metrics"
        /\ LET dec == parse_tres_value(row.tres_req, TRES_CPU_ID)
           IN  metrics.req_cpus =
                  IF dec.n # 0 THEN dec ELSE PyInt(ColVal(row.cpus_req))
        /\ IsNum(metrics.cpu_requested)
        /\ metrics.cpu_requested.n * metrics.elapsed.d
              = metrics.elapsed.n * metrics.req_cpus.n * metrics.cpu_requested.d

\* Reached: the list has no CPU entry, the column says 2, and the capacity is
\* 100 s x 2.
C7_Witness ==
    /\ Called /\ metrics.t = "metrics"
    /\ row.tres_req = PyStr(TresMem) /\ row.cpus_req = PyInt(2)
    /\ metrics.req_cpus = PyInt(2)
    /\ NumIs(metrics.elapsed, 100) /\ NumIs(metrics.cpu_requested, 200)

\* The row with every null numeric field replaced by 0.
NullsAsZero(r) ==
    [f \in DOMAIN r |->
        IF f \notin {"t", "tres_req"} /\ r[f] = None THEN PyInt(0)
        ELSE r[f]]

MetricNumberFields ==
    {"exit_code", "time_submit", "time_start", "time_end", "elapsed",
     "wait_time", "timelimit_sec", "total_user", "total_sys", "total_cpu",
     "req_cpus", "maxrss", "reqmem", "cpu_requested", "nodes_alloc"}

MetricRatioFields == {"cpu_eff", "mem_eff", "time_eff", "user_cpu_pct"}

\* C8: calculate_job_metrics is total: for every row whose numeric fields are
\* each an int or null and whose resource list is a string or null it returns
\* a metrics record without raising, and a null field counts as 0.
C8_CalculateIsTotal ==
    Called =>
        /\ metrics.t = "metrics"
        /\ \A f \in MetricNumberFields : IsNum(metrics[f])
        /\ \A f \in MetricRatioFields :
              metrics[f] = None \/ metrics[f].t = "float"
        /\ metrics = calculate_job_metrics(NullsAsZero(row))

\* Reached: a row whose nullable fields are all null was turned into metrics.
C8_Witness ==
    /\ Called /\ metrics.t = "metrics"
    /\ \A f \in {"exit_code", "time_submit", "time_start", "time_end",
                 "cpus_req", "tres_req", "timelimit", "nodes_alloc",
                 "total_user_sec", "total_sys_sec", "total_user_usec",
                 "total_sys_usec", "max_mem_bytes"} : row[f] = None
    /\ metrics.elapsed = PyInt(0) /\ metrics.cpu_eff = None

-----------------------------------------------------------------------------
(* SpecFetch: one job of the accounting store, its steps, and the row each *)
(* tool derives from them                                                  *)

\* Bound: the number of steps of the job.
MaxSteps == 2

\* discover_special_steps on a store that has batch and extern steps.
SpecialSteps == [batch |-> -5, extern |-> -4]

\* discover_special_steps on a store in which no step is named 'batch'.
NoBatchSteps == [extern |-> -4]

\* Step ids: the two special ones and two regular (srun) steps.
StepIds == {-5, -4, 0, 1}

\* CPU counters of a step: user_sec, sys_sec, user_usec, sys_usec.
StepCpu ==
    {<<0, 0, 0, 0>>, <<7, 0, 500000, 0>>, <<0, 5, 0, 250000>>,
     <<7, 5, 500000, 250000>>, <<0, 0, 500000, 250000>>, <<7, 5, 0, 0>>}

\* tres_usage_in_max of a step: "2=100" or "1=5,2=30".
StepUsage == {FormatTres(<< <<2, 100>> >>), FormatTres(<< <<1, 5>>, <<2, 30>> >>)}

StepRows ==
    {[user_sec |-> c[1], sys_sec |-> c[2], user_usec |-> c[3],
      sys_usec |-> c[4], tres_usage_in_max |-> u] :
        c \in StepCpu, u \in StepUsage}

\* since_ts and until_ts of the run.
FetchWindow == [since |-> 5, until |-> 1000]

BaseJob ==
    [job_db_inx |-> 1, id_job |-> 100, user |-> <<"u">>,
     state |-> JOB_STATE_COMPLETED, exit_code |-> 0,
     time_submit |-> 10, time_start |-> 20, time_end |-> 120,
     cpus_req |-> 2, tres_req |-> TresCpuMem, timelimit |-> 5,
     nodes_alloc |-> 1]

\* Jobs of create_job_table: a completed job whose resource list and column
\* disagree on the CPU count; a failed job with an empty resource list; a
\* job that started before its submit time; a job with end < start (dropped
\* by the WHERE clause); a job in a state that is not a finished one (11).
FetchJobs ==
    {BaseJob,
     [BaseJob EXCEPT !.state = JOB_STATE_FAILED, !.exit_code = 1,
                     !.tres_req = <<>>],
     [BaseJob EXCEPT !.time_submit = 30, !.cpus_req = 0, !.tres_req = TresMem],
     [BaseJob EXCEPT !.time_end = 15],
     [BaseJob EXCEPT !.state = 11]}

FetchInit ==
    /\ RunIdle
    /\ job \in FetchJobs
    /\ steps = <<>>
    /\ special_steps \in {SpecialSteps, NoBatchSteps}
    /\ row = NoRow /\ jrow = NoRow
    /\ metrics = NotCalled /\ jmetrics = NotCalled
    /\ TresIdle /\ AggIdle

NotFetched == row = NoRow /\ jrow = NoRow /\ metrics = NotCalled
                /\ jmetrics = NotCalled

\* The accounting backend records one more step of the job.
InsertStep ==
    /\ NotFetched
    /\ Cardinality(DOMAIN steps) < MaxSteps
    /\ \E id \in StepIds \ DOMAIN steps : \E st \in StepRows :
          /\ id < 0 => id \in ExcludeIds(special_steps)
          /\ steps' = (id :> st) @@ steps
    /\ UNCHANGED <<run, job, special_steps, row, jrow, calc_vars, tres_vars,
                   agg_vars>>

\* The aggregate tool's loop body on this job: the row of fetch_job_data,
\* skipped unless its state is a finished one, else calculate_job_metrics.
\* A query the server rejects raises in cursor.execute and ends the run.
AggregateStatsRow ==
    /\ row = NoRow /\ metrics = NotCalled
    /\ row' = fetch_job_data(job, steps, special_steps, FetchWindow)
    /\ metrics' = IF row'.t = "row" /\ IsFinished(row')
                  THEN calculate_job_metrics(row') ELSE NotCalled
    /\ row'.t \in {"row", "raise"}
    /\ UNCHANGED <<run, job, steps, special_steps, jrow, jmetrics, tres_vars,
                   agg_vars>>

\* The job-level tool's loop body on this job.
JobStatsRow ==
    /\ jrow = NoRow /\ jmetrics = NotCalled
    /\ jrow' = job_stats_fetch_job_data(job, steps, special_steps, FetchWindow)
    /\ jmetrics' = IF jrow'.t = "row" /\ IsFinished(jrow')
                   THEN process_job(jrow') ELSE NotCalled
    /\ jrow'.t \in {"row", "raise"}
    /\ UNCHANGED <<run, job, steps, special_steps, row, metrics, tres_vars,
                   agg_vars>>

FetchNext == InsertStep \/ AggregateStatsRow \/ JobStatsRow

SpecFetch == FetchInit /\ [][FetchNext]_vars

RegularIds == DOMAIN steps \ ExcludeIds(special_steps)
HasRegular == RegularIds # {}
HasBatch   ==
    "batch" \in DOMAIN special_steps /\ special_steps.batch \in DOMAIN steps

\* The CPU time of the regular steps and of the batch step, by component.
RegularCpu ==
    [c \in {"user_sec", "sys_sec", "user_usec", "sys_usec"} |->
        SumSteps(RegularIds, steps, c)]
BatchCpu ==
    [c \in {"user_sec", "sys_sec", "user_usec", "sys_usec"} |->
        steps[special_steps.batch][c]]

CpuIsZero(cpu) == \A c \in DOMAIN cpu : cpu[c] = 0

\* The one source the job's CPU time is to come from.
CpuSource == IF CpuIsZero(RegularCpu) THEN BatchCpu ELSE RegularCpu

\* C1: for a job with both regular steps and a batch step, the CPU time handed
\* to the metric calculator comes from the regular steps only; the batch
\* step's values are used only when the regular-step total is zero, and no
\* batch component is ever combined with a regular-step component.  Stated
\* for the rows of both tools.
C1_CpuFromOneSource ==
    /\ (row # NoRow /\ HasRegular /\ HasBatch) =>
          /\ row.total_user_sec  = PyInt(CpuSource["user_sec"])
          /\ row.total_sys_sec   = PyInt(CpuSource["sys_sec"])
          /\ row.total_user_usec = PyInt(CpuSource["user_usec"])
          /\ row.total_sys_usec  = PyInt(CpuSource["sys_usec"])
    /\ (jrow # NoRow /\ HasRegular /\ HasBatch) =>
          /\ jrow.total_user_sec = PyInt(CpuSource["user_sec"])
          /\ jrow.total_sys_sec  = PyInt(CpuSource["sys_sec"])
          /\ jrow.total_cpu_usec =
                PyInt(CpuSource["user_usec"] + CpuSource["sys_usec"])

\* C6: from the same job record the job-level tool (process_job) and the
\* aggregate tool (calculate_job_metrics) derive the same elapsed, wait,
\* total CPU seconds, requested CPU count, requested and used memory bytes,
\* and the same cpu_eff, mem_eff and time_eff.
C6_SameJobMetrics ==
    (metrics # NotCalled /\ jmetrics # NotCalled) =>
        /\ metrics.t = "metrics" /\ jmetrics.t = "job"
        /\ jmetrics.elapsed_sec   = metrics.elapsed
        /\ jmetrics.wait_sec      = metrics.wait_time
        /\ jmetrics.total_cpu_sec = metrics.total_cpu
        /\ jmetrics.alloccpus     = metrics.req_cpus
        /\ jmetrics.reqmem_bytes  = metrics.reqmem
        /\ jmetrics.maxrss_bytes  = metrics.maxrss
        /\ jmetrics.cpu_eff_pct   = metrics.cpu_eff
        /\ jmetrics.mem_eff_pct   = metrics.mem_eff
        /\ jmetrics.time_eff_pct  = metrics.time_eff

\* C15: when no step is named 'batch' the run is not aborted: the job fetch
\* of either tool executes, and a finished job is processed with its CPU
\* time taken from the regular steps (0 if there are none).
C15_NoBatchRunContinues ==
    "batch" \notin DOMAIN special_steps =>
        /\ row.t # "raise"
        /\ jrow.t # "raise"
        /\ (row.t = "row" /\ IsFinished(row)) =>
              /\ metrics.t = "metrics"
              /\ row.total_user_sec  = PyInt(RegularCpu["user_sec"])
              /\ row.total_sys_sec   = PyInt(RegularCpu["sys_sec"])
              /\ row.total_user_usec = PyInt(RegularCpu["user_usec"])
              /\ row.total_sys_usec  = PyInt(RegularCpu["sys_usec"])
        /\ (jrow.t = "row" /\ IsFinished(jrow)) =>
              /\ jmetrics.t = "job"
              /\ jrow.total_user_sec = PyInt(RegularCpu["user_sec"])
              /\ jrow.total_sys_sec  = PyInt(RegularCpu["sys_sec"])

-----------------------------------------------------------------------------
(* SpecAgg: one run of the aggregate tool: the jobs of the store are       *)
(* folded into the groups, then the groups are finalized                   *)

\* Bound: the number of jobs folded in a run.
MaxJobs == 3

\* The directory: the entry of each known user.
\* Users a and b have a faculty (st); the entry of d has none; c has no
\* entry.
Directory ==
    (<<"a">> :> [cn |-> "a", st |-> "physics"]) @@
    (<<"b">> :> [cn |-> "b", st |-> "chem"]) @@
    (<<"d">> :> [cn |-> "d"])

\* The server of an aggregation run: its connection can be lost during a
\* search.
AggServer == LdapServer(Directory, FALSE, {"SERVER_DOWN"}, {})

AStep(user_sec, sys_sec, user_usec, sys_usec, mem) ==
    [user_sec |-> user_sec, sys_sec |-> sys_sec, user_usec |-> user_usec,
     sys_usec |-> sys_usec,
     tres_usage_in_max |-> FormatTres(<< <<2, mem>> >>)]

TresTwoCpus == FormatTres(<< <<1, 2>>, <<2, 1>> >>)

\* The jobs of the store with their steps.  Jobs 1 and 2 use 50 of 100 and
\* 30 of 300 CPU-seconds; job 3 failed and has no steps, no resource list
\* and no limit; job 4 started before its submit time and has only a batch
\* step; job 5 timed out, belongs to a user the directory does not know and
\* has a regular and a batch step; job 6 is still running (state 1); job 7
\* ended before it started.
AggJobs ==
    {[job   |-> [BaseJob EXCEPT !.job_db_inx = 1, !.id_job = 101,
                    !.user = <<"a">>, !.tres_req = TresTwoCpus,
                    !.time_end = 70],
      steps |-> (0 :> AStep(50, 0, 0, 0, 524288))],
     [job   |-> [BaseJob EXCEPT !.job_db_inx = 2, !.id_job = 102,
                    !.user = <<"a">>, !.tres_req = TresTwoCpus,
                    !.time_end = 170],
      steps |-> (0 :> AStep(30, 0, 0, 0, 1048576))],
     [job   |-> [BaseJob EXCEPT !.job_db_inx = 3, !.id_job = 103,
                    !.user = <<"b">>, !.state = JOB_STATE_FAILED,
                    !.exit_code = 1, !.tres_req = <<>>, !.cpus_req = 0,
                    !.timelimit = 0],
      steps |-> <<>>],
     [job   |-> [BaseJob EXCEPT !.job_db_inx = 4, !.id_job = 104,
                    !.user = <<"b">>, !.time_submit = 30,
                    !.tres_req = TresMem],
      steps |-> (-5 :> AStep(7, 5, 500000, 250000, 262144))],
     [job   |-> [BaseJob EXCEPT !.job_db_inx = 5, !.id_job = 105,
                    !.user = <<"c">>, !.state = JOB_STATE_TIMEOUT,
                    !.time_end = 320],
      steps |-> (0 :> AStep(0, 5, 0, 250000, 262144)) @@
                (-5 :> AStep(7, 0, 500000, 0, 131072))],
     [job   |-> [BaseJob EXCEPT !.job_db_inx = 6, !.id_job = 106,
                    !.state = 1],
      steps |-> <<>>],
     [job   |-> [BaseJob EXCEPT !.job_db_inx = 7, !.id_job = 107,
                    !.time_end = 15],
      steps |-> <<>>]}

\* The rows the cursor of fetch_job_data yields for the store.
CursorRows ==
    {r \in {fetch_job_data(aj.job, aj.steps, SpecialSteps, FetchWindow) :
               aj \in AggJobs} : r.t = "row"}

\* metrics = calculate_job_metrics(row), for each finished row.
RowMetrics ==
    [r \in {x \in CursorRows : IsFinished(x)} |-> calculate_job_metrics(r)]
      @@ <<>>

\* main: stats_by_attr = {attr: {} for attr in collate_by_keys};
\* global_stats = {} if use_global else None.  --collate_by is required, so
\* at least one of the two is active.
InitialStats ==
    {[by_attr |-> [attr \in keys |-> <<>>], global |-> <<>>,
      use_global |-> g] :
        keys \in {{}, {"st"}}, g \in BOOLEAN} \
    {[by_attr |-> <<>>, global |-> <<>>, use_global |-> FALSE]}

\* The collections of groups of a run: the attributes, and "none" for the
\* global one.
Collections(st) ==
    DOMAIN st.by_attr \cup (IF st.use_global THEN {"none"} ELSE {})

AggInit ==
    /\ RunIdle
    /\ stats \in InitialStats
    /\ group_order = [c \in Collections(stats) |-> <<>>]
    /\ emitted = <<>>
    /\ jemitted = <<>>
    /\ user_cache = <<>>
    /\ ldap_errors = <<>>
    /\ ldap_conn = "none"
    /\ rows_read = <<>>
    /\ folded = <<>>
    /\ prev_stats = stats
    /\ finalized = FALSE
    /\ LdapHistIdle /\ TresIdle /\ DbIdle /\ CalcIdle

\* The cursor yields each row once.
AlreadyRead(inx) == \E i \in 1..Len(rows_read) : rows_read[i] = inx

\* The loop body of main on a row whose state is not a finished one: the
\* row is counted and skipped (continue).
SkipRow ==
    /\ ~finalized
    /\ \E r \in CursorRows :
         /\ ~IsFinished(r)
         /\ ~AlreadyRead(r.job_db_inx.n)
         /\ rows_read' = Append(rows_read, r.job_db_inx.n)
    /\ UNCHANGED <<run, stats, group_order, emitted, jemitted, folded,
                   prev_stats,
                   finalized, ldap_vars, ldap_hist, tres_vars, db_vars,
                   calc_vars>>

\* for attr in collate_by_keys: value = get_user_attribute(...).  The ways
\* the lookups of one job end: the value and the kind of resolution of each
\* attribute, and the connection, cache and error log after them.
RECURSIVE LookupEach(_, _, _, _, _)
LookupEach(attrs, username, conn, cache, error_log) ==
    IF attrs = {}
    THEN {[t |-> "return", values |-> <<>>, kinds |-> <<>>, conn |-> conn,
           cache |-> cache, error_log |-> error_log]}
    ELSE LET attr == CHOOSE a \in attrs : TRUE
         IN  UNION {
               IF o.t = "raise"
               THEN {[t |-> "raise", values |-> <<>>, kinds |-> <<>>,
                      conn |-> o.conn, cache |-> o.cache,
                      error_log |-> o.error_log]}
               ELSE {[rest EXCEPT
                        !.values = (attr :> o.value) @@ @,
                        !.kinds  = (attr :> o.kind) @@ @] :
                       rest \in LookupEach(attrs \ {attr}, username, o.conn,
                                           o.cache, o.error_log)} :
               o \in get_user_attribute(conn, AggServer, username, attr,
                                        cache, error_log)}

\* The key order of a dict of groups after groups[key] was created if new.
OrderWith(order, groups, key) ==
    IF key \in DOMAIN groups THEN order ELSE Append(order, key)

\* The loop body of main on a row whose state is a finished one: its
\* metrics are computed and folded into the group of each attribute
\* collection and into the global group.
FoldJob ==
    /\ ~finalized
    /\ Len(folded) < MaxJobs
    /\ \E r \in DOMAIN RowMetrics :
         LET m        == RowMetrics[r]
             username == m.username.s
             attrs    == DOMAIN stats.by_attr
         IN  /\ ~AlreadyRead(r.job_db_inx.n)
             /\ m.t = "metrics"
             /\ rows_read' = Append(rows_read, r.job_db_inx.n)
             /\ \E res \in LookupEach(attrs, username, ldap_conn, user_cache,
                                      ldap_errors) :
                  /\ res.t = "return"
                  /\ user_cache' = res.cache
                  /\ ldap_errors' = res.error_log
                  /\ ldap_conn' = res.conn
                  /\ stats' =
                       [by_attr |->
                          [attr \in attrs |->
                             update_stats(m,
                               WithGroup(stats.by_attr[attr],
                                         res.values[attr]),
                               res.values[attr])],
                        global |->
                          IF stats.use_global
                          THEN update_stats(m,
                                 WithGroup(stats.global, "all"), "all")
                          ELSE stats.global,
                        use_global |-> stats.use_global]
                  /\ group_order' =
                       [c \in DOMAIN group_order |->
                          IF c = "none"
                          THEN OrderWith(group_order[c], stats.global, "all")
                          ELSE OrderWith(group_order[c], stats.by_attr[c],
                                         res.values[c])]
                  /\ folded' =
                       Append(folded, [metrics |-> m, keys |-> res.values,
                                       kinds |-> res.kinds])
    /\ prev_stats' = stats
    /\ UNCHANGED <<run, emitted, jemitted, finalized, ldap_hist, tres_vars, db_vars,
                   calc_vars>>

\* main after the loop: calculate_final_efficiencies on every group of
\* every collection, before the groups are written out.
Finalize ==
    /\ ~finalized
    /\ finalized' = TRUE
    /\ stats' =
         [by_attr |->
            [attr \in DOMAIN stats.by_attr |->
               [k \in DOMAIN stats.by_attr[attr] |->
                  calculate_final_efficiencies(stats.by_attr[attr][k])]],
          global |->
            [k \in DOMAIN stats.global |->
               calculate_final_efficiencies(stats.global[k])],
          use_global |-> stats.use_global]
    /\ UNCHANGED <<run, group_order, emitted, jemitted, rows_read, folded,
                   prev_stats,
                   ldap_vars, ldap_hist, tres_vars, db_vars, calc_vars>>

RECURSIVE OutputEach(_)
OutputEach(attrs) ==
    IF attrs = {} THEN <<>>
    ELSE LET attr == CHOOSE a \in attrs : TRUE
         IN  output_csv(stats.by_attr[attr], group_order[attr], attr) \o
             OutputEach(attrs \ {attr})

\* main: the groups of each attribute collection are written out, then the
\* global group.
OutputCsv ==
    /\ finalized
    /\ emitted = <<>>
    /\ emitted' =
         OutputEach(DOMAIN stats.by_attr) \o
         (IF stats.use_global
          THEN output_csv(stats.global, group_order["none"], "global")
          ELSE <<>>)
    /\ UNCHANGED <<run, stats, group_order, jemitted, rows_read, folded,
                   prev_stats, finalized, ldap_vars, ldap_hist, tres_vars,
                   db_vars, calc_vars>>

AggNext == SkipRow \/ FoldJob \/ Finalize \/ OutputCsv

SpecAgg == AggInit /\ [][AggNext]_vars

\* The groups of a stats value, each named <<collection, key>>; the global
\* collection is named "none" as on the command line.
GroupsOf(st) ==
    {<<"none", k>> : k \in DOMAIN st.global} \cup
    UNION {{<<attr, k>> : k \in DOMAIN st.by_attr[attr]} :
              attr \in DOMAIN st.by_attr}

GroupAt(st, g) ==
    IF g[1] = "none" THEN st.global[g[2]] ELSE st.by_attr[g[1]][g[2]]

\* The metrics of the jobs folded into group g, in order.
JobsOf(g) ==
    LET mine == SelectSeq(folded,
                          LAMBDA e : g[1] = "none" \/ e.keys[g[1]] = g[2])
    IN  [i \in 1..Len(mine) |-> mine[i].metrics]

RECURSIVE SumField(_, _)
SumField(jobs, f) ==
    IF jobs = <<>> THEN PyInt(0)
    ELSE PyAdd(SumField(SubSeq(jobs, 1, Len(jobs) - 1), f),
               jobs[Len(jobs)][f])

\* sum(num) / sum(den) x 100 over the jobs.
RatioOfSums(jobs, num, den) ==
    PyMul(PyDiv(SumField(jobs, num), SumField(jobs, den)), PyInt(100))

\* C9: after the folds and calculate_final_efficiencies, each weighted
\* efficiency of a group is the ratio of the sums over all the jobs folded
\* into the group, times 100: total_cpu over elapsed x req_cpus, maxrss over
\* reqmem, elapsed over timelimit_sec.
C9_WeightedIsRatioOfSums ==
    finalized =>
      \A g \in GroupsOf(stats) :
        LET s == GroupAt(stats, g)
            jobs == JobsOf(g)
        IN  /\ GtZero(SumField(jobs, "cpu_requested")) =>
                 s.weighted_cpu_eff =
                     RatioOfSums(jobs, "total_cpu", "cpu_requested")
            /\ GtZero(SumField(jobs, "reqmem")) =>
                 s.weighted_mem_eff = RatioOfSums(jobs, "maxrss", "reqmem")
            /\ GtZero(SumField(jobs, "timelimit_sec")) =>
                 s.weighted_time_eff =
                     RatioOfSums(jobs, "elapsed", "timelimit_sec")

\* Jobs 1 and 2 (50 of 100 and 30 of 300 CPU-seconds) folded into one
\* group: the weighted efficiency is 20, the mean of the ratios 30.
C9_Witness ==
    /\ finalized
    /\ \E g \in GroupsOf(stats) :
         /\ Len(JobsOf(g)) = 2
         /\ GroupAt(stats, g).weighted_cpu_eff = PyFloat(20, 1)
         /\ GroupAt(stats, g).avg_cpu_eff = PyFloat(30, 1)
         /\ GroupAt(stats, g).weighted_mem_eff = PyFloat(75, 1)

\* The running sums and counters of a group.
SumFields == DOMAIN init_stats_dict \ {"count_by_state", "exit_codes"}

\* The group as it was before the latest fold (fresh if it did not exist).
Before(g) ==
    IF g \in GroupsOf(prev_stats) THEN GroupAt(prev_stats, g)
    ELSE init_stats_dict

\* C10 as stated: no update_stats call leaves any running sum or counter of
\* a group, total_wait included, smaller than before the call.
C10_SumsNeverDecrease ==
    \A g \in GroupsOf(stats) :
      \A f \in SumFields : NumLe(Before(g)[f], GroupAt(stats, g)[f])

\* C10, amended: for the rows fetch_job_data delivers (end >= start > 0)
\* with non-negative stored counts, no update_stats call leaves a running
\* sum or counter other than total_wait smaller than before the call;
\* total_wait changes by exactly the job's wait, which is negative for a
\* job that started before its submit time.
C10_SumsExceptWaitNeverDecrease ==
    /\ \A g \in GroupsOf(stats) :
         \A f \in SumFields \ {"total_wait"} :
            NumLe(Before(g)[f], GroupAt(stats, g)[f])
    /\ (folded # <<>> /\ ~finalized) =>
         \A g \in GroupsOf(stats) :
            GroupAt(stats, g) # Before(g) =>
               GroupAt(stats, g).total_wait =
                  PyAdd(Before(g).total_wait,
                        folded[Len(folded)].metrics.wait_time)

\* A job with a negative wait was folded into a group that already held
\* jobs: total_wait fell while total_elapsed grew.
C10_Witness ==
    \E g \in GroupsOf(stats) :
       /\ GtZero(Before(g).job_count)
       /\ ~NumLe(Before(g).total_wait, GroupAt(stats, g).total_wait)
       /\ ~NumLe(GroupAt(stats, g).total_elapsed, Before(g).total_elapsed)

\* The metrics of the jobs among `jobs` whose state is COMPLETED.
Completed(jobs) ==
    SelectSeq(jobs, LAMBDA m : m.state = PyInt(JOB_STATE_COMPLETED))

\* The number of jobs with a non-null value of ratio f.
CountNonNull(jobs, f) ==
    PyInt(Cardinality({i \in 1..Len(jobs) : jobs[i][f] # None}))

\* The defining denominator of each derived field of a group, recomputed
\* from the jobs folded into the group.
Denominators(jobs) ==
    LET ok       == Completed(jobs)
        n        == PyInt(Len(jobs))
        cpu_time == PyAdd(SumField(jobs, "total_user"),
                          SumField(jobs, "total_sys"))
    IN  [weighted_cpu_eff  |-> SumField(jobs, "cpu_requested"),
         weighted_mem_eff  |-> SumField(jobs, "reqmem"),
         weighted_time_eff |-> SumField(jobs, "timelimit_sec"),
         avg_cpu_eff  |-> CountNonNull(jobs, "cpu_eff"),
         avg_mem_eff  |-> CountNonNull(jobs, "mem_eff"),
         avg_time_eff |-> CountNonNull(jobs, "time_eff"),
         avg_wait |-> n, avg_elapsed |-> n, avg_cpu |-> n,
         avg_reqcpus |-> n, avg_reqmem |-> n, avg_maxrss |-> n,
         user_cpu_pct |-> cpu_time, sys_cpu_pct |-> cpu_time,
         success_weighted_cpu_eff  |-> SumField(ok, "cpu_requested"),
         success_weighted_mem_eff  |-> SumField(ok, "reqmem"),
         success_weighted_time_eff |-> SumField(ok, "timelimit_sec"),
         success_avg_cpu_eff  |-> CountNonNull(ok, "cpu_eff"),
         success_avg_mem_eff  |-> CountNonNull(ok, "mem_eff"),
         success_avg_time_eff |-> CountNonNull(ok, "time_eff")]

\* C11: every derived field computed by calculate_final_efficiencies is
\* None exactly when its defining denominator (a sum or a count over the
\* folded jobs) is 0, and a number otherwise.
C11_DerivedNoneIffZeroDenominator ==
    finalized =>
      \A g \in GroupsOf(stats) :
        LET s   == GroupAt(stats, g)
            den == Denominators(JobsOf(g))
        IN  \A f \in DOMAIN den :
               /\ (s[f] = None) <=> (den[f].n = 0)
               /\ (s[f] # None) => IsNum(s[f])

\* A finalized group holding only the failed job without steps, resource
\* list or limit: its efficiencies are None, its averages over job_count
\* are numbers; and a finalized group whose efficiencies are numbers.
C11_Witness ==
    /\ finalized
    /\ \E g \in GroupsOf(stats) :
         /\ GroupAt(stats, g).weighted_cpu_eff = None
         /\ GroupAt(stats, g).avg_time_eff = None
         /\ GroupAt(stats, g).user_cpu_pct = None
         /\ GroupAt(stats, g).success_avg_mem_eff = None
         /\ IsNum(GroupAt(stats, g).avg_wait)
    /\ \E g \in GroupsOf(stats) :
         /\ IsNum(GroupAt(stats, g).weighted_cpu_eff)
         /\ IsNum(GroupAt(stats, g).success_avg_time_eff)

\* The group obtained by folding the jobs, in order, into a fresh
\* statistics dictionary.
RECURSIVE FoldAll(_)
FoldAll(jobs) ==
    IF jobs = <<>> THEN init_stats_dict
    ELSE update_stats(jobs[Len(jobs)],
                      ("g" :> FoldAll(SubSeq(jobs, 1, Len(jobs) - 1))),
                      "g")["g"]

\* Each success-only field with the all-jobs field it mirrors.
SuccessMirror ==
    [success_total_elapsed     |-> "total_elapsed",
     success_total_cpu         |-> "total_cpu",
     success_total_maxrss      |-> "total_maxrss",
     success_total_reqmem      |-> "total_reqmem",
     success_sum_cpu_requested |-> "sum_cpu_requested",
     success_total_timelimit   |-> "total_timelimit",
     success_sum_job_cpu_eff   |-> "sum_job_cpu_eff",
     success_sum_job_mem_eff   |-> "sum_job_mem_eff",
     success_sum_job_time_eff  |-> "sum_job_time_eff",
     success_count_cpu_eff     |-> "count_cpu_eff",
     success_count_mem_eff     |-> "count_mem_eff",
     success_count_time_eff    |-> "count_time_eff",
     job_count_success         |-> "job_count"]

\* C14: the success-only sums and counts of a group equal the all-jobs sums
\* and counts of a fresh accumulator into which only the COMPLETED jobs of
\* the group were folded; folding a job that is not COMPLETED changes none
\* of them.
C14_SuccessFieldsMirrorCompleted ==
    \A g \in GroupsOf(stats) :
      LET s     == GroupAt(stats, g)
          fresh == FoldAll(Completed(JobsOf(g)))
      IN  /\ \A f \in DOMAIN SuccessMirror : s[f] = fresh[SuccessMirror[f]]
          /\ (~finalized /\ folded # <<>>
              /\ folded[Len(folded)].metrics.state
                    # PyInt(JOB_STATE_COMPLETED)) =>
                \A f \in DOMAIN SuccessMirror : s[f] = Before(g)[f]

\* A group holding a COMPLETED and then a job that is not: the success-only
\* elapsed sum is positive, smaller than the all-jobs sum and was left
\* alone by the latest fold.
C14_Witness ==
    /\ ~finalized /\ folded # <<>>
    /\ folded[Len(folded)].metrics.state # PyInt(JOB_STATE_COMPLETED)
    /\ \E g \in GroupsOf(stats) :
         /\ GtZero(GroupAt(stats, g).success_total_elapsed)
         /\ GroupAt(stats, g).job_count_success = PyInt(1)
         /\ GroupAt(stats, g).job_count = PyInt(2)
         /\ ~NumLe(GroupAt(stats, g).total_elapsed,
                   GroupAt(stats, g).success_total_elapsed)

\* The state stored for the job of a row read from the cursor.
StoredState(inx) ==
    (CHOOSE aj \in AggJobs : aj.job.job_db_inx = inx).job.state

\* The rows read so far whose state is a finished one.
FinishedRead ==
    {i \in 1..Len(rows_read) : StoredState(rows_read[i]) \in FINISHED_STATES}

RECURSIVE SumJobCount(_, _)
SumJobCount(groups, keys) ==
    IF keys = {} THEN 0
    ELSE LET k == CHOOSE x \in keys : TRUE
         IN  groups[k].job_count.n + SumJobCount(groups, keys \ {k})

\* C13: every row read whose state is a finished one has been folded
\* exactly once into exactly one group of each attribute collection, the
\* group keyed by the value resolved for its user, and exactly once into
\* the global group "all" when that is active; rows in another state are in
\* no group.  Hence the job_count values of a collection's groups sum to the
\* number of finished rows read, which is the global group's job_count.
C13_FinishedRowsFoldedOnce ==
    /\ Len(folded) = Cardinality(FinishedRead)
    /\ \A i \in FinishedRead :
         Cardinality({j \in 1..Len(folded) :
            folded[j].metrics.job_db_inx = PyInt(rows_read[i])}) = 1
    /\ \A attr \in DOMAIN stats.by_attr :
         LET groups == stats.by_attr[attr]
         IN  /\ \A j \in 1..Len(folded) :
                  /\ folded[j].keys[attr] \in DOMAIN groups
                  /\ folded[j].keys[attr] =
                        user_cache[<<folded[j].metrics.username.s, attr>>]
             /\ \A k \in DOMAIN groups :
                  groups[k].job_count.n =
                     Cardinality({j \in 1..Len(folded) :
                                     folded[j].keys[attr] = k})
             /\ SumJobCount(groups, DOMAIN groups) = Len(folded)
    /\ IF stats.use_global /\ folded # <<>>
       THEN /\ DOMAIN stats.global = {"all"}
            /\ stats.global["all"].job_count.n = Len(folded)
       ELSE stats.global = <<>>

\* Both collections are active, a row in a state that is not a finished one
\* was read and skipped, and three finished rows were folded into two
\* groups of the attribute collection.
C13_Witness ==
    /\ stats.use_global /\ "st" \in DOMAIN stats.by_attr
    /\ Len(rows_read) = 4 /\ Len(folded) = 3
    /\ Cardinality(DOMAIN stats.by_attr["st"]) = 2
    /\ stats.global["all"].job_count = PyInt(3)

-----------------------------------------------------------------------------
(* SpecReport: the report each tool writes for one job of the store        *)

\* tres_usage_in_max of a step, for the memory maximum: "2=9", "2=100",
\* "1=5,2=30", lists without an entry for id 2 ("1=5", "12=7") and the
\* empty list.
MemUsage ==
    {FormatTres(<< <<2, 9>> >>), FormatTres(<< <<2, 100>> >>),
     FormatTres(<< <<1, 5>>, <<2, 30>> >>), FormatTres(<< <<1, 5>> >>),
     FormatTres(<< <<12, 7>> >>), <<>>}

MemStep(usage) ==
    [user_sec |-> 1, sys_sec |-> 0, user_usec |-> 0, sys_usec |-> 0,
     tres_usage_in_max |-> usage]

\* The stores of one job with one or two steps, regular (0, 1), batch or
\* extern, each with a list of MemUsage.
MemStores ==
    {[job |-> BaseJob, steps |-> (id :> MemStep(u))] :
        id \in StepIds, u \in MemUsage} \cup
    {[job |-> BaseJob, steps |-> (p[1] :> MemStep(u1)) @@ (p[2] :> MemStep(u2))] :
        p \in {q \in StepIds \X StepIds : q[1] < q[2]},
        u1 \in MemUsage, u2 \in MemUsage}

\* The stores of one job: the jobs of the aggregation runs with their
\* steps, each job of FetchJobs with no step or one regular step, and a job
\* whose one step, regular or batch, used 10 s + 500000 us of user time and
\* 5 s + 500000 us of system time; and the stores of MemStores.
ReportStores ==
    AggJobs \cup
    {[job |-> j, steps |-> st] :
        j \in FetchJobs,
        st \in {<<>>} \cup {(0 :> r) : r \in StepRows}} \cup
    {[job |-> BaseJob, steps |-> (id :> AStep(10, 5, 500000, 500000, 1))] :
        id \in {0, -5}} \cup
    MemStores

ReportInit ==
    /\ RunIdle
    /\ \E store \in ReportStores : job = store.job /\ steps = store.steps
    /\ special_steps = SpecialSteps
    /\ row = NoRow /\ jrow = NoRow
    /\ metrics = NotCalled /\ jmetrics = NotCalled
    /\ TresIdle /\ AggIdle

\* job_stats.main after the loop: the processed job is written to the
\* output file.  The run has no directory here, so the job carries no
\* faculty key.
WriteJobCsv ==
    /\ jmetrics.t = "job"
    /\ jemitted = <<>>
    /\ \E include_faculty \in BOOLEAN :
         jemitted' = job_stats_output_csv(<<jmetrics>>, include_faculty)
    /\ UNCHANGED <<run, db_vars, calc_vars, tres_vars, stats, group_order,
                   emitted, rows_read, folded, prev_stats, finalized,
                   ldap_vars, ldap_hist>>

\* aggregate_stats.main collating by "none" on this job: the metrics are
\* folded into the global group "all", the group is finalized and written
\* out.
WriteGroupCsv ==
    /\ metrics.t = "metrics"
    /\ emitted = <<>>
    /\ LET groups == update_stats(metrics, WithGroup(<<>>, "all"), "all")
           final  == [k \in DOMAIN groups |->
                         calculate_final_efficiencies(groups[k])]
       IN  /\ stats' = [by_attr |-> <<>>, global |-> final,
                        use_global |-> TRUE]
           /\ group_order' = [none |-> <<"all">>]
           /\ finalized' = TRUE
           /\ emitted' = output_csv(final, <<"all">>, "global")
    /\ UNCHANGED <<run, db_vars, calc_vars, tres_vars, jemitted, rows_read,
                   folded, prev_stats, ldap_vars, ldap_hist>>

ReportNext ==
    \/ AggregateStatsRow \/ JobStatsRow \/ WriteJobCsv \/ WriteGroupCsv

SpecReport == ReportInit /\ [][ReportNext]_vars

-----------------------------------------------------------------------------
(* C20: emission order                                                     *)

\* The key under which a folded job went into collection c.
KeyIn(c, e) == IF c = "none" THEN "all" ELSE e.keys[c]

\* The position in the run of the first job folded into group k of
\* collection c.
FirstSeen(c, k) ==
    CHOOSE i \in 1..Len(folded) :
        /\ KeyIn(c, folded[i]) = k
        /\ \A j \in 1..(i - 1) : KeyIn(c, folded[j]) # k

\* The lines written for collection c, without the header.
LinesOf(label) ==
    SelectSeq(emitted, LAMBDA l : ~l.header /\ l.label = label)

LabelOf(c) == IF c = "none" THEN "global" ELSE c

\* C20: the groups of each collection are written in order of descending
\* job_count, each group once, and groups with equal job_count in the
\* order in which their first job was folded.
C20_EmittedByDescendingJobCount ==
    emitted # <<>> =>
        \A c \in Collections(stats) :
            LET lines  == LinesOf(LabelOf(c))
                groups == IF c = "none" THEN stats.global
                          ELSE stats.by_attr[c]
            IN  /\ {lines[i].key : i \in 1..Len(lines)} = DOMAIN groups
                /\ Len(lines) = Cardinality(DOMAIN groups)
                /\ \A i \in 1..Len(lines) :
                       lines[i].job_count = groups[lines[i].key].job_count
                /\ \A i, j \in 1..Len(lines) :
                       i < j =>
                         \/ lines[i].job_count.n > lines[j].job_count.n
                         \/ /\ lines[i].job_count.n = lines[j].job_count.n
                            /\ FirstSeen(c, lines[i].key)
                                 < FirstSeen(c, lines[j].key)

\* A run in which the group seen first has one job and is written after a
\* group seen later that has two.
C20_Witness ==
    /\ emitted # <<>>
    /\ "st" \in DOMAIN stats.by_attr
    /\ LET lines == LinesOf("st")
       IN  /\ Len(lines) = 2
           /\ lines[1].job_count = PyInt(2)
           /\ lines[2].job_count = PyInt(1)
           /\ FirstSeen("st", lines[2].key) < FirstSeen("st", lines[1].key)

-----------------------------------------------------------------------------
(* The directory lookups of one run                                        *)

\* Bound: the searches made for one (username, attribute) pair.
MaxSearches == 2

\* The (username, attribute) pairs looked up.
LdapPairs ==
    {<<(<<"a">>), "st">>, <<(<<"a">>), "cn">>, <<(<<"c">>), "st">>,
     <<(<<"d">>), "st">>}

\* A server whose answers may carry referrals, whose searches can fail
\* with a lost connection or another LDAP error, and whose bind can fail.
FullServer ==
    LdapServer(Directory, TRUE, {"SERVER_DOWN", "LDAPError"}, {"SERVER_DOWN"})

LdapInit ==
    /\ RunIdle
    /\ user_cache = <<>>
    /\ ldap_errors = <<>>
    /\ ldap_conn = "none"
    /\ last_lookup = NotCalled
    /\ search_count = [k \in LdapPairs |-> 0]
    /\ FoldIdle /\ TresIdle /\ DbIdle /\ CalcIdle

\* One call of get_user_attribute on the cache, error log and client of
\* the run.  last_lookup keeps the call and its outcome, search_count the
\* calls of LdapClient.search made for each pair.
LookupUser ==
    /\ \E u \in {k[1] : k \in LdapPairs}, attr \in {k[2] : k \in LdapPairs} :
         /\ <<u, attr>> \in LdapPairs
         /\ search_count[<<u, attr>>] < MaxSearches
         /\ \E o \in get_user_attribute(ldap_conn, FullServer, u, attr,
                                        user_cache, ldap_errors) :
              /\ user_cache' = o.cache
              /\ ldap_errors' = o.error_log
              /\ ldap_conn' = o.conn
              /\ last_lookup' =
                   [t |-> o.t, user |-> u, attribute |-> attr,
                    value |-> o.value, kind |-> o.kind, search |-> o.search,
                    cache_before |-> user_cache,
                    errors_before |-> ldap_errors]
              /\ search_count' =
                   IF o.search = NoSearch THEN search_count
                   ELSE [search_count EXCEPT ![<<u, attr>>] = @ + 1]
    /\ UNCHANGED <<run, fold_vars, tres_vars, db_vars, calc_vars>>

LdapNext == LookupUser

SpecLdap == LdapInit /\ [][LdapNext]_vars

-----------------------------------------------------------------------------
(* C16: lookups are memoized                                               *)

\* C16: at most one search is made per (username, attribute) pair; a call
\* for a resolved pair returns the cached value without a search, and no
\* call changes or removes an entry of the cache.
C16_OneSearchPerPair ==
    /\ \A k \in DOMAIN search_count : search_count[k] <= 1
    /\ \A k \in DOMAIN search_count :
          search_count[k] = 1 <=> k \in DOMAIN user_cache
    /\ last_lookup # NotCalled =>
          LET key == <<last_lookup.user, last_lookup.attribute>>
              old == last_lookup.cache_before
          IN  /\ \A k \in DOMAIN old :
                    k \in DOMAIN user_cache /\ user_cache[k] = old[k]
              /\ user_cache[key] = last_lookup.value
              /\ key \in DOMAIN old =>
                    /\ last_lookup.search = NoSearch
                    /\ last_lookup.value = old[key]
                    /\ user_cache = old
                    /\ ldap_errors = last_lookup.errors_before

\* A pair that resolved to "unknown" after a failed search is asked for
\* again, while another attribute of the same user is still unresolved.
C16_Witness ==
    /\ last_lookup # NotCalled
    /\ last_lookup.kind = "cached"
    /\ last_lookup.value = "unknown"
    /\ last_lookup.user = <<"a">>
    /\ last_lookup.attribute = "st"
    /\ search_count[<<(<<"a">>), "st">>] = 1
    /\ search_count[<<(<<"a">>), "cn">>] = 0
    /\ \E i \in 1..Len(ldap_errors) :
          ldap_errors[i].user = <<"a">> /\ ldap_errors[i].kind = "LDAP error"

-----------------------------------------------------------------------------
(* C18: reconnect and retry                                                *)

\* The events of a kind in the search of the last lookup.
EventsOf(kind) ==
    IF last_lookup = NotCalled \/ last_lookup.search = NoSearch THEN <<>>
    ELSE SelectSeq(last_lookup.search.events,
                   LAMBDA e : Len(e) >= Len(kind)
                              /\ SubSeq(e, 1, Len(kind)) = kind)

SearchEvents    == EventsOf("search")
ReconnectEvents == EventsOf("reconnect")

\* C18 as stated: a first search that fails with SERVER_DOWN is followed
\* by exactly one reconnect and exactly one retry.
C18_ReconnectThenRetry ==
    (SearchEvents # <<>> /\ SearchEvents[1] = "search SERVER_DOWN") =>
        /\ Len(ReconnectEvents) = 1
        /\ Len(SearchEvents) = 2

\* C18, amended: a first search that fails with SERVER_DOWN is followed by
\* exactly one reconnect attempt; if the reconnect succeeds exactly one
\* retry follows, and a retry that fails with SERVER_DOWN propagates; if
\* the reconnect fails, its error propagates and there is no retry.  No
\* call makes more than two search attempts or more than one reconnect,
\* and no reconnect happens without a first search lost to SERVER_DOWN.
C18_ReconnectThenRetryIfConnected ==
    /\ Len(SearchEvents) <= SearchAttempts
    /\ Len(ReconnectEvents) <= 1
    /\ Len(ReconnectEvents) = 1 <=>
          (SearchEvents # <<>> /\ SearchEvents[1] = "search SERVER_DOWN")
    /\ Len(ReconnectEvents) = 1 =>
          IF ReconnectEvents[1] = "reconnect ok"
          THEN /\ Len(SearchEvents) = 2
               /\ SearchEvents[2] = "search SERVER_DOWN" =>
                     /\ last_lookup.search.t = "raise"
                     /\ last_lookup.search.exc = "SERVER_DOWN"
          ELSE /\ Len(SearchEvents) = 1
               /\ last_lookup.search.t = "raise"
               /\ last_lookup.search.exc = "SERVER_DOWN"
    /\ Len(SearchEvents) = 2 => Len(ReconnectEvents) = 1

\* A search lost its connection twice: once before the reconnect and once
\* in the retry.
C18_Witness ==
    /\ SearchEvents = <<"search SERVER_DOWN", "search SERVER_DOWN">>
    /\ ReconnectEvents = <<"reconnect ok">>
    /\ last_lookup.search.t = "raise"

-----------------------------------------------------------------------------
(* C17: a failed lookup resolves to "unknown"                              *)

\* The search of a lookup gave no value for the attribute: it raised, or
\* its results hold no real entry, or the first real entry lacks the
\* attribute.
LookupFailed(o, attribute) ==
    \/ o.search.t = "raise"
    \/ /\ o.search.t = "results"
       /\ LET entries == SelectSeq(o.search.results,
                                   LAMBDA e : ~e.is_referral)
          IN  \/ entries = <<>>
              \/ attribute \notin DOMAIN entries[1].attrs

FailureKinds ==
    {"no entry", "referrals only", "attribute missing", "exception"}

\* C17: from every state of a run, a lookup of any user against a server
\* that can fail in every way returns and does not raise, and returns
\* "unknown" when its search failed; a job whose lookup failed is folded
\* into the group "unknown", and the run goes on.
C17_FailedLookupIsUnknown ==
    /\ \A k \in LdapPairs :
          \A o \in get_user_attribute(ldap_conn, FullServer, k[1], k[2],
                                      user_cache, ldap_errors) :
              /\ o.t = "return"
              /\ (o.search # NoSearch /\ LookupFailed(o, k[2])) =>
                    /\ o.value = "unknown"
                    /\ o.kind \in FailureKinds
                    /\ o.cache[k] = "unknown"
    /\ \A i \in 1..Len(folded) :
          \A attr \in DOMAIN folded[i].kinds :
              folded[i].kinds[attr] \in FailureKinds =>
                  /\ folded[i].keys[attr] = "unknown"
                  /\ "unknown" \in DOMAIN stats.by_attr[attr]
                  /\ stats.by_attr[attr]["unknown"].job_count.n >= 1
    /\ (~finalized /\ Len(folded) < MaxJobs
           /\ \E r \in DOMAIN RowMetrics : ~AlreadyRead(r.job_db_inx.n))
          => ENABLED FoldJob

\* A job whose lookup lost its connection twice and a job whose user has
\* no entry were both folded into "unknown", and a third job was folded
\* after them.
C17_Witness ==
    /\ "st" \in DOMAIN stats.by_attr
    /\ Len(folded) = 3
    /\ folded[1].kinds["st"] = "exception"
    /\ folded[2].kinds["st"] = "no entry"
    /\ stats.by_attr["st"]["unknown"].job_count.n >= 2

-----------------------------------------------------------------------------
(* slurm_utils.parse_date_range                                            *)

IsLeap(y) == (y % 4 = 0 /\ y % 100 # 0) \/ y % 400 = 0

DaysInMonth(y, m) ==
    IF m = 2 THEN (IF IsLeap(y) THEN 29 ELSE 28)
    ELSE IF m \in {4, 6, 9, 11} THEN 30 ELSE 31

AllDigits(s) == s # <<>> /\ \A i \in 1..Len(s) : s[i] \in Digits

\* datetime.strptime(s, "%Y-%m-%d"): a year of four digits, a month of one
\* or two digits in 1..12 and a day of one or two digits in 1..31, joined
\* by "-", with nothing before or after; then the date must exist.
Strptime(s) ==
    LET f == Split(s, "-")
    IN  IF Len(f) # 3 THEN Raise("ValueError")
        ELSE IF ~(AllDigits(f[1]) /\ Len(f[1]) = 4) THEN Raise("ValueError")
        ELSE IF ~(AllDigits(f[2]) /\ Len(f[2]) <= 2
                    /\ DigitsToNat(f[2]) \in 1..12) THEN Raise("ValueError")
        ELSE IF ~(AllDigits(f[3]) /\ Len(f[3]) <= 2
                    /\ DigitsToNat(f[3]) \in 1..31) THEN Raise("ValueError")
        ELSE LET y == DigitsToNat(f[1])
                 m == DigitsToNat(f[2])
                 d == DigitsToNat(f[3])
             IN  IF y < 1 \/ d > DaysInMonth(y, m) THEN Raise("ValueError")
                 ELSE [t |-> "datetime", year |-> y, month |-> m, day |-> d]

LeapDaysBefore(y) == (y - 1) \div 4 - (y - 1) \div 100 + (y - 1) \div 400

RECURSIVE DaysBeforeMonth(_, _)
DaysBeforeMonth(y, m) ==
    IF m = 1 THEN 0 ELSE DaysBeforeMonth(y, m - 1) + DaysInMonth(y, m - 1)

\* int(dt.timestamp()) of a midnight, with local time taken as UTC.
Timestamp(dt) ==
    (365 * (dt.year - 1970) + LeapDaysBefore(dt.year) - LeapDaysBefore(1970)
       + DaysBeforeMonth(dt.year, dt.month) + dt.day - 1) * 86400

\* if since_ts >= until_ts: sys.exit(...)
RangeRejected(since_ts, until_ts) == since_ts >= until_ts

parse_date_range(since_str, until_str) ==
    LET since_dt == Strptime(since_str)
        until_dt == Strptime(until_str)
    IN  IF IsRaise(since_dt) \/ IsRaise(until_dt)
        THEN [t |-> "exit", message |-> "Error parsing dates"]
        ELSE IF RangeRejected(Timestamp(since_dt), Timestamp(until_dt))
        THEN [t |-> "exit",
              message |-> "Error: 'since' date must be before 'until' date"]
        ELSE [t |-> "range", since_ts |-> Timestamp(since_dt),
              until_ts |-> Timestamp(until_dt)]

-----------------------------------------------------------------------------
(* SpecRun: main of either tool, from its arguments to its output          *)

\* The date arguments of a run, with the calendar day each one names
\* (<<>> when it names none).
DateArgs ==
    {[s |-> <<"2", "0", "2", "4", "-", "0", "1", "-", "0", "1">>,
      day |-> <<2024, 1, 1>>],
     [s |-> <<"2", "0", "2", "4", "-", "1", "-", "5">>,
      day |-> <<2024, 1, 5>>],
     [s |-> <<"2", "0", "2", "4", "-", "0", "2", "-", "2", "9">>,
      day |-> <<2024, 2, 29>>],
     [s |-> <<"2", "0", "2", "3", "-", "0", "2", "-", "2", "9">>,
      day |-> <<>>],
     [s |-> <<"2", "0", "2", "4", "-", "1", "3", "-", "0", "1">>,
      day |-> <<>>],
     [s |-> <<"0", "1", "/", "0", "3", "/", "2", "0", "2", "4">>,
      day |-> <<>>]}

Tools == {"aggregate_stats", "job_stats"}

\* The arguments and the environment of a run: the tool, --since and
\* --until, whether directory lookups are requested (an attribute in
\* --collate_by, --include-faculty), whether the AD config and the MySQL
\* config load, whether the server accepts the connection, the special
\* steps of the step table, and whether the output file can be opened.
RunArgs ==
    [tool : Tools, since : DateArgs, until : DateArgs, lookups : BOOLEAN,
     ad_config_ok : BOOLEAN, config_ok : BOOLEAN, db_up : BOOLEAN,
     special_steps : {SpecialSteps, NoBatchSteps}, output_ok : BOOLEAN]

RunInit ==
    /\ run \in {[args |-> a, pc |-> "parse_date_range", status |-> "running",
                  trace |-> <<>>] : a \in RunArgs}
    /\ TresIdle /\ DbIdle /\ CalcIdle /\ AggIdle

\* main moves to the next step, having done `events`.
Goes(pc, events) ==
    [run EXCEPT !.pc = pc, !.trace = @ \o events]

\* The process ends in sys.exit (status "exit") or in an exception that
\* nothing catches (status "raise"), having done `events`.
Ends(status, events) ==
    [run EXCEPT !.status = status, !.trace = @ \o events]

Running(pc) == run # NotCalled /\ run.status = "running" /\ run.pc = pc

\* since_ts, until_ts = parse_date_range(args.since, args.until)
ParseDateRange ==
    /\ Running("parse_date_range")
    /\ run' = IF parse_date_range(run.args.since.s, run.args.until.s).t
                   = "exit"
              THEN Ends("exit", <<"sys.exit: dates">>)
              ELSE Goes("setup_ldap", <<>>)
    /\ UNCHANGED <<tres_vars, db_vars, calc_vars, agg_vars>>

\* if collate_by_keys / if args.include_faculty: load_ad_config, LdapClient
SetupLdap ==
    /\ Running("setup_ldap")
    /\ run' = IF ~run.args.lookups THEN Goes("connect_mysql", <<>>)
              ELSE IF ~run.args.ad_config_ok
              THEN Ends("exit", <<"read ad_config", "sys.exit: ad_config">>)
              ELSE Goes("connect_mysql", <<"read ad_config", "LdapClient">>)
    /\ UNCHANGED <<tres_vars, db_vars, calc_vars, agg_vars>>

\* conn, cursor = connect_mysql(args.config)
ConnectMysql ==
    /\ Running("connect_mysql")
    /\ run' = IF ~run.args.config_ok
              THEN Ends("exit", <<"read config", "sys.exit: config">>)
              ELSE IF ~run.args.db_up
              THEN Ends("exit", <<"read config", "connect refused",
                                  "sys.exit: connect">>)
              ELSE Goes("discover_special_steps",
                        <<"read config", "connected">>)
    /\ UNCHANGED <<tres_vars, db_vars, calc_vars, agg_vars>>

\* special_steps = discover_special_steps(cursor)
DiscoverSpecialSteps ==
    /\ Running("discover_special_steps")
    /\ run' = Goes("fetch_job_data",
                   IF "batch" \in DOMAIN run.args.special_steps
                   THEN <<"query: steps">>
                   ELSE <<"query: steps", "warning: no batch">>)
    /\ UNCHANGED <<tres_vars, db_vars, calc_vars, agg_vars>>

\* for row in fetch_job_data(...): the query is executed and the rows are
\* processed; a query the server rejects raises in cursor.execute.
FetchJobData ==
    /\ Running("fetch_job_data")
    /\ LET r == IF run.args.tool = "aggregate_stats"
                THEN fetch_job_data(BaseJob, <<>>, run.args.special_steps,
                                    FetchWindow)
                ELSE job_stats_fetch_job_data(BaseJob, <<>>,
                                              run.args.special_steps,
                                              FetchWindow)
       IN  run' = IF IsRaise(r) THEN Ends("raise", <<"raise: " \o r.exc>>)
                  ELSE Goes("output", <<"query: jobs", "rows processed">>)
    /\ UNCHANGED <<tres_vars, db_vars, calc_vars, agg_vars>>

\* open(args.output, 'w') and output_csv
WriteOutput ==
    /\ Running("output")
    /\ run' = IF run.args.output_ok THEN Ends("done", <<"output written">>)
              ELSE Ends("raise", <<"raise: OSError">>)
    /\ UNCHANGED <<tres_vars, db_vars, calc_vars, agg_vars>>

RunNext ==
    \/ ParseDateRange \/ SetupLdap \/ ConnectMysql \/ DiscoverSpecialSteps
    \/ FetchJobData \/ WriteOutput

SpecRun == RunInit /\ [][RunNext]_vars

-----------------------------------------------------------------------------
(* C19: fatal exits                                                        *)

\* The order of two calendar days.
DayBefore(a, b) ==
    \/ a[1] < b[1]
    \/ a[1] = b[1] /\ a[2] < b[2]
    \/ a[1] = b[1] /\ a[2] = b[2] /\ a[3] < b[3]

\* The date range of the run is invalid: a date names no day, or since is
\* not before until.
InvalidRange ==
    \/ run.args.since.day = <<>>
    \/ run.args.until.day = <<>>
    \/ ~DayBefore(run.args.since.day, run.args.until.day)

Did(event) == \E i \in 1..Len(run.trace) : run.trace[i] = event

\* A run with an invalid date range ends in sys.exit at the date check,
\* having read no config file, created no directory client and opened no
\* database connection; a valid one passes the check.
DateErrorsExitBeforeSetup ==
    (run # NotCalled /\ run.pc # "parse_date_range") => IF InvalidRange
         THEN run.status = "exit" /\ run.trace = <<"sys.exit: dates">>
         ELSE ~Did("sys.exit: dates")

\* C19: in both tools an invalid date range terminates the process before
\* any config file is read, any directory client is created and any
\* database connection is opened; and no run is terminated by an error
\* after its database work has begun.
C19_FatalOnlyBeforeDatabaseWork ==
    run # NotCalled =>
        /\ DateErrorsExitBeforeSetup
        /\ run.status \in {"exit", "raise"} => ~Did("connected")

-----------------------------------------------------------------------------
(* Python floats as IEEE-754 binary64: a number is bits * 2^exp, bits     *)
(* being a sequence of binary digits, most significant first, without     *)
(* leading or trailing zeros.  Used where the rounding of a float         *)
(* operation matters; all values are non-negative and in the normal range *)

\* The significand of a binary64 float has 53 bits.
Precision == 53

DZero == [bits |-> <<>>, exp |-> 0]

\* The number without leading and trailing zero digits.
Norm(x) ==
    LET ones == {i \in 1..Len(x.bits) : x.bits[i] = 1}
    IN  IF ones = {} THEN DZero
        ELSE LET first == CHOOSE i \in ones : \A j \in ones : i <= j
                 last  == CHOOSE i \in ones : \A j \in ones : j <= i
             IN  [bits |-> SubSeq(x.bits, first, last),
                  exp  |-> x.exp + (Len(x.bits) - last)]

Zeros(n) == [i \in 1..n |-> 0]

\* The carry into position i of the sum of two digit sequences of equal
\* length: some lower position generates a carry and every position
\* between passes it on.
CarryInto(a, b, i) ==
    \E j \in (i + 1)..Len(a) :
        /\ a[j] + b[j] = 2
        /\ \A k \in (i + 1)..(j - 1) : a[k] + b[k] = 1

\* The sum of two digit sequences of equal length, one digit longer.
AddBits(a, b) ==
    [i \in 1..(Len(a) + 1) |->
        IF i = 1 THEN (IF CarryInto(a, b, 0) THEN 1 ELSE 0)
        ELSE (a[i - 1] + b[i - 1]
                + (IF CarryInto(a, b, i - 1) THEN 1 ELSE 0)) % 2]

\* The exact sum of two numbers.
ExactAdd(x, y) ==
    IF x = DZero THEN y
    ELSE IF y = DZero THEN x
    ELSE LET e  == IF x.exp < y.exp THEN x.exp ELSE y.exp
             xa == x.bits \o Zeros(x.exp - e)
             ya == y.bits \o Zeros(y.exp - e)
             n  == IF Len(xa) > Len(ya) THEN Len(xa) ELSE Len(ya)
         IN  Norm([bits |-> AddBits(Zeros(n - Len(xa)) \o xa,
                                    Zeros(n - Len(ya)) \o ya),
                   exp |-> e])

\* Rounding to the nearest float, ties to the even significand.
RoundToDouble(x) ==
    IF Len(x.bits) <= Precision THEN x
    ELSE LET keep   == SubSeq(x.bits, 1, Precision)
             rest   == SubSeq(x.bits, Precision + 1, Len(x.bits))
             e      == x.exp + Len(rest)
             sticky == \E i \in 2..Len(rest) : rest[i] = 1
             up     == rest[1] = 1 /\ (sticky \/ keep[Precision] = 1)
             down   == [bits |-> keep, exp |-> e]
         IN  IF up THEN ExactAdd(down, [bits |-> <<1>>, exp |-> e])
             ELSE Norm(down)

RECURSIVE NatBits(_)
NatBits(n) == IF n = 0 THEN <<>> ELSE NatBits(n \div 2) \o <<n % 2>>

\* float(n) for a natural number below 2^31.
DoubleOfNat(n) == Norm([bits |-> NatBits(n), exp |-> 0])

\* The binary digits of r/d after the point (r < d) appended to acc, up to
\* two significant digits past the precision, with the remainder left;
\* have is the number of significant digits so far.
RECURSIVE FractionBits(_, _, _, _)
FractionBits(r, d, have, acc) ==
    IF r = 0 \/ have >= Precision + 2 THEN [bits |-> acc, rem |-> r]
    ELSE FractionBits((2 * r) % d, d,
                      IF have > 0 \/ (2 * r) \div d = 1 THEN have + 1 ELSE 0,
                      Append(acc, (2 * r) \div d))

\* float(n) / float(d) for naturals n and d > 0: the quotient, correctly
\* rounded.
DoubleDiv(n, d) ==
    LET int  == NatBits(n \div d)
        frac == FractionBits(n % d, d, Len(int), <<>>)
    IN  RoundToDouble(Norm(
          [bits |-> int \o frac.bits \o <<IF frac.rem = 0 THEN 0 ELSE 1>>,
           exp  |-> -(Len(frac.bits) + 1)]))

\* The exact product of a number and a natural.
RECURSIVE ExactMulNat(_, _)
ExactMulNat(x, k) ==
    IF k = 0 \/ x.bits = <<>> THEN DZero
    ELSE LET twice == ExactMulNat([x EXCEPT !.exp = @ + 1], k \div 2)
         IN  IF k % 2 = 1 THEN ExactAdd(twice, x) ELSE twice

\* x * k and x + y on floats.
DoubleMulNat(x, k) == RoundToDouble(ExactMulNat(x, k))
DoubleAdd(x, y)    == RoundToDouble(ExactAdd(x, y))

\* time_eff = (elapsed / timelimit_sec * 100) if timelimit_sec > 0 else
\* None, as a float: a rounded division, then a rounded multiplication.
DoubleTimeEff(m) ==
    IF m.time_eff = None THEN None
    ELSE DoubleMulNat(DoubleDiv(m.elapsed.n, m.timelimit_sec.n), 100)

\* if time_eff is not None: s["sum_job_time_eff"] += time_eff, for the
\* jobs in order, as floats.
RECURSIVE DoubleSumTimeEff(_)
DoubleSumTimeEff(jobs) ==
    IF jobs = <<>> THEN DZero
    ELSE LET before == DoubleSumTimeEff(SubSeq(jobs, 1, Len(jobs) - 1))
             eff    == DoubleTimeEff(jobs[Len(jobs)])
         IN  IF eff = None THEN before ELSE DoubleAdd(before, eff)

-----------------------------------------------------------------------------
(* C12: folding in any order                                               *)

\* The metrics of the finished jobs of the store by job_db_inx, and the
\* orders in which up to MaxJobs of them can be folded.
FinishedIds == {r.job_db_inx.n : r \in DOMAIN RowMetrics}

MetricsOfId ==
    [id \in FinishedIds |->
        RowMetrics[CHOOSE r \in DOMAIN RowMetrics : r.job_db_inx.n = id]]

JobOrders ==
    {s \in UNION {[1..n -> FinishedIds] : n \in 0..MaxJobs} :
        \A i, j \in 1..Len(s) : i # j => s[i] # s[j]}

MetricsOfOrder(s) == [i \in 1..Len(s) |-> MetricsOfId[s[i]]]

\* The group folded from each order of jobs, the group after
\* calculate_final_efficiencies, and the float value of sum_job_time_eff
\* (each a table: merging with the empty function enumerates it).
FoldOf  == [s \in JobOrders |-> FoldAll(MetricsOfOrder(s))] @@ <<>>
FinalOf ==
    [s \in JobOrders |-> calculate_final_efficiencies(FoldOf[s])] @@ <<>>
SumTimeEffDouble ==
    [s \in JobOrders |-> DoubleSumTimeEff(MetricsOfOrder(s))] @@ <<>>

\* The orders of the same jobs.
Reorderings(s) ==
    {p \in JobOrders :
        /\ Len(p) = Len(s)
        /\ {p[i] : i \in 1..Len(p)} = {s[i] : i \in 1..Len(s)}}

\* The order in which the jobs of group g were folded.
OrderOf(g) ==
    LET jobs == JobsOf(g)
    IN  [i \in 1..Len(jobs) |-> jobs[i].job_db_inx.n]

\* The group of a run is the fold of its jobs, and the fold of the same
\* jobs in any other order is the same group, before and after
\* calculate_final_efficiencies, when sums are exact.
SameGroupInAnyOrder(g) ==
    LET s == OrderOf(g)
    IN  /\ GroupAt(stats, g) = IF finalized THEN FinalOf[s] ELSE FoldOf[s]
        /\ \A p \in Reorderings(s) :
              FoldOf[p] = FoldOf[s] /\ FinalOf[p] = FinalOf[s]

\* C12 as stated: folding the jobs of a group in any order yields the same
\* counters, histograms and sums, the float sum_job_time_eff included, and
\* the same derived fields.
C12_FoldOrderIndependent ==
    \A g \in GroupsOf(stats) :
        /\ SameGroupInAnyOrder(g)
        /\ \A p \in Reorderings(OrderOf(g)) :
              SumTimeEffDouble[p] = SumTimeEffDouble[OrderOf(g)]

\* C12, amended: folding in any order yields the same counters, histograms
\* and sums, and the same derived fields, when the additions are exact;
\* the float sum_job_time_eff is the same in both orders of two jobs.
C12_FoldOrderIndependentWhenExact ==
    \A g \in GroupsOf(stats) :
        /\ SameGroupInAnyOrder(g)
        /\ Len(OrderOf(g)) <= 2 =>
              \A p \in Reorderings(OrderOf(g)) :
                  SumTimeEffDouble[p] = SumTimeEffDouble[OrderOf(g)]

\* A finalized group of three jobs with different time efficiencies whose
\* float sum depends on the order.
C12_Witness ==
    /\ finalized
    /\ stats.use_global
    /\ "all" \in DOMAIN stats.global
    /\ LET jobs == OrderOf(<<"none", "all">>)
       IN  /\ Len(jobs) = 3
           /\ \E p \in Reorderings(jobs) :
                 SumTimeEffDouble[p] # SumTimeEffDouble[jobs]

(***************************************************************************)
(* C21: calculate_final_efficiencies is idempotent                         *)
(***************************************************************************)

\* The counters, histograms and running sums of a group.
RunningFields == DOMAIN init_stats_dict

\* C21: for every group of the run, before and after main has finalized
\* it, calculate_final_efficiencies leaves every counter, histogram and
\* running sum as it is, and applying it to its own result changes
\* nothing; so a finalized group is a fixed point.
C21_FinalizeIdempotent ==
    \A g \in GroupsOf(stats) :
        LET s     == GroupAt(stats, g)
            once  == calculate_final_efficiencies(s)
            twice == calculate_final_efficiencies(once)
        IN  /\ \A f \in RunningFields : once[f] = s[f]
            /\ DOMAIN once = RunningFields \cup DOMAIN DerivedFields(s)
            /\ twice = once
            /\ finalized => once = s

\* A finalized group of two jobs or more with a defined average and a
\* defined weighted efficiency.
C21_Witness ==
    /\ finalized
    /\ \E g \in GroupsOf(stats) :
         /\ GroupAt(stats, g).job_count.n >= 2
         /\ IsNum(GroupAt(stats, g).avg_elapsed)
         /\ GroupAt(stats, g).avg_elapsed # GroupAt(stats, g).total_elapsed
         /\ IsNum(GroupAt(stats, g).weighted_cpu_eff)

(***************************************************************************)
(* C22: the text of the report cells                                       *)
(***************************************************************************)

IsDigitsText(t) == t # <<>> /\ \A i \in 1..Len(t) : t[i] \in Digits

Unsigned(t) == IF t # <<>> /\ t[1] = "-" THEN Tail(t) ELSE t

\* An optional sign and decimal digits.
IsIntText(t) == IsDigitsText(Unsigned(t))

\* An optional sign, decimal digits, a point and exactly two digits.
IsFixed2(t) ==
    LET u == Unsigned(t)
    IN  /\ Len(u) >= 4
        /\ u[Len(u) - 2] = "."
        /\ IsDigitsText(SubSeq(u, 1, Len(u) - 3))
        /\ IsDigitsText(SubSeq(u, Len(u) - 1, Len(u)))

\* The number of hundredths a two-decimal text names, without its sign.
Hundredths(t) ==
    LET u == Unsigned(t)
    IN  DigitsToNat(SubSeq(u, 1, Len(u) - 3)) * 100 +
        DigitsToNat(SubSeq(u, Len(u) - 1, Len(u)))

\* The text is the float rounded to two decimals.
RoundsTo(val, t) ==
    LET low == (100 * Abs(val.n)) \div val.d
    IN  /\ Hundredths(t) \in {low, low + 1}
        /\ (t[1] = "-") <=> (val.n < 0)

\* The cells written through format_value, each with the value it renders:
\* those of the group lines and those of the job lines.
ReportCells ==
    {[value |-> GroupCell(stats.global[emitted[i].key], GroupColumns[c][2]),
      text  |-> emitted[i].cells[c]] :
        i \in 2..Len(emitted), c \in 1..Len(GroupColumns)} \cup
    {[value |-> jmetrics[JobColumns[c]], text |-> jemitted[i].cells[c]] :
        i \in 2..Len(jemitted), c \in 1..Len(JobColumns)}

\* C22 as stated: in both reports every numeric value is written as
\* two-decimal text and every None as NULL.
C22_NumbersTwoDecimalNoneNull ==
    \A cell \in ReportCells :
        /\ cell.value = None => cell.text = NullText
        /\ IsNum(cell.value) => IsFixed2(cell.text)

\* C22, amended: in both reports a cell is NULL exactly when its value is
\* None, every float is written as two-decimal text naming the value
\* rounded to hundredths, and every int is written as its plain decimal
\* text (no point, no decimals).
C22_FloatsTwoDecimalNoneNull ==
    \A cell \in ReportCells :
        /\ cell.value = None <=> cell.text = NullText
        /\ cell.value.t \in {"None", "int", "float"}
        /\ cell.value.t = "float" =>
              IsFixed2(cell.text) /\ RoundsTo(cell.value, cell.text)
        /\ cell.value.t = "int" =>
              IsIntText(cell.text) /\ ParseInt(cell.text) = cell.value

\* Both reports are written; each holds a NULL cell, and the job line holds
\* a float that is not a whole number of hundredths and an int.
C22_Witness ==
    /\ Len(emitted) = 2 /\ Len(jemitted) = 2
    /\ \E c \in 1..Len(GroupColumns) : emitted[2].cells[c] = NullText
    /\ \E c \in 1..Len(JobColumns) : jemitted[2].cells[c] = NullText
    /\ \E c \in 1..Len(JobColumns) :
         /\ jmetrics[JobColumns[c]].t = "float"
         /\ 100 % jmetrics[JobColumns[c]].d # 0
    /\ \E c \in 1..Len(JobColumns) : jmetrics[JobColumns[c]].t = "int"

(***************************************************************************)
(* C23: the average efficiencies                                          *)
(***************************************************************************)

\* The jobs among `jobs` whose ratio f is not None.
Rated(jobs, f) == SelectSeq(jobs, LAMBDA m : m[f] # None)

RatioKinds == {"cpu", "mem", "time"}

\* The arithmetic mean of ratio f over the jobs that have one; None when
\* there is none.
MeanOfRated(jobs, f) ==
    IF Rated(jobs, f) = <<>> THEN None
    ELSE PyDiv(SumField(Rated(jobs, f), f), PyInt(Len(Rated(jobs, f))))

\* C23: after finalize, avg_X_eff of each group (X in cpu, mem, time) is
\* the arithmetic mean of the per-job X ratios over exactly the folded jobs
\* whose ratio is not None: the ratio sum holds their ratios only and the
\* divisor is their number.
C23_AverageOverRatedJobs ==
    finalized =>
      \A g \in GroupsOf(stats) : \A x \in RatioKinds :
        LET s     == GroupAt(stats, g)
            f     == x \o "_eff"
            rated == Rated(JobsOf(g), f)
        IN  /\ s["count_" \o f] = PyInt(Len(rated))
            /\ s["sum_job_" \o f] = SumField(rated, f)
            /\ s["avg_" \o f] = MeanOfRated(JobsOf(g), f)

\* A finalized group into which a job without a time ratio and a job with
\* one were folded; its average is the ratio of the one job.
C23_Witness ==
    /\ finalized
    /\ \E g \in GroupsOf(stats) :
         /\ Len(JobsOf(g)) >= 2
         /\ \E i \in 1..Len(JobsOf(g)) : JobsOf(g)[i].time_eff = None
         /\ Len(Rated(JobsOf(g), "time_eff")) = 1
         /\ GroupAt(stats, g).avg_time_eff =
               Rated(JobsOf(g), "time_eff")[1].time_eff
    /\ \E g \in GroupsOf(stats) :
         /\ Len(Rated(JobsOf(g), "cpu_eff")) >= 2
         /\ GroupAt(stats, g).count_cpu_eff.n < GroupAt(stats, g).job_count.n

(***************************************************************************)
(* C24: total CPU seconds                                                  *)
(***************************************************************************)

\* sec + usec / 1,000,000 as an exact number.
Seconds(sec, usec) == PyFloat(sec * 1000000 + usec, 1000000)

\* C24: for every row handed to calculate_job_metrics, total_user and
\* total_sys are the seconds plus the microseconds / 1,000,000 of their own
\* columns, and total_cpu = total_user + total_sys = user_sec + sys_sec +
\* (user_usec + sys_usec) / 1,000,000.  The microseconds of the row are
\* those of the regular steps when the job has no batch step and those of
\* the batch step when it has no regular step, so they are counted
\* whichever of the two supplied them.
C24_TotalCpuIncludesMicroseconds ==
    (metrics # NotCalled /\ metrics.t = "metrics") =>
        LET us == ColVal(row.total_user_sec)
            ss == ColVal(row.total_sys_sec)
            uu == ColVal(row.total_user_usec)
            su == ColVal(row.total_sys_usec)
        IN  /\ metrics.total_user = Seconds(us, uu)
            /\ metrics.total_sys  = Seconds(ss, su)
            /\ metrics.total_cpu  = Seconds(us + ss, uu + su)
            /\ metrics.total_cpu  =
                  PyAdd(metrics.total_user, metrics.total_sys)
            /\ (HasRegular /\ ~HasBatch) =>
                  uu = RegularCpu["user_usec"] /\ su = RegularCpu["sys_usec"]
            /\ (HasBatch /\ ~HasRegular) =>
                  uu = BatchCpu["user_usec"] /\ su = BatchCpu["sys_usec"]

\* The example: 10 s + 5 s + (500000 + 500000) us give 16.0, from a regular
\* step.
C24_Witness ==
    /\ metrics # NotCalled /\ metrics.t = "metrics"
    /\ HasRegular /\ ~HasBatch
    /\ row.total_user_sec = PyInt(10) /\ row.total_sys_sec = PyInt(5)
    /\ row.total_user_usec = PyInt(500000)
    /\ row.total_sys_usec = PyInt(500000)
    /\ metrics.total_cpu = PyFloat(16, 1)

\* The same from a batch step alone.
C24_WitnessBatch ==
    /\ metrics # NotCalled /\ metrics.t = "metrics"
    /\ HasBatch /\ ~HasRegular
    /\ metrics.total_user = PyFloat(21, 2)
    /\ metrics.total_cpu = PyFloat(16, 1)

(***************************************************************************)
(* C25: requested memory in bytes                                          *)
(***************************************************************************)

BytesPerMegabyte == 1048576

\* C25: for every row, when the memory value (id 2) decoded from the
\* requested-resource list is a non-negative integer, reqmem is that value
\* times 1,048,576, and mem_eff is maxrss over reqmem times 100 (None when
\* reqmem is 0).
C25_ReqMemIsMegabytes ==
    Called =>
        LET dec    == parse_tres_value(row.tres_req, TRES_MEM_ID)
            maxrss == ColVal(row.max_mem_bytes)
        IN  (dec.t = "int" /\ dec.n >= 0) =>
              /\ metrics.t = "metrics"
              /\ metrics.reqmem = PyInt(dec.n * BytesPerMegabyte)
              /\ metrics.mem_eff =
                    IF dec.n = 0 THEN None
                    ELSE PyFloat(maxrss * 100, dec.n * BytesPerMegabyte)

\* Reached: 2000 MB requested and 524288 bytes used.
C25_Witness ==
    /\ Called /\ metrics.t = "metrics"
    /\ row.tres_req = PyStr(TresBigMem)
    /\ row.max_mem_bytes = PyInt(524288)
    /\ metrics.reqmem = PyInt(2097152000)
    /\ metrics.mem_eff = PyFloat(1, 40)

(***************************************************************************)
(* C26: the error log is capped                                            *)
(***************************************************************************)

\* The kinds of resolution that get_user_attribute reports as an error.
LoggedKinds == {"no entry", "referrals only", "exception"}

\* C26: the error log never holds more than 3 entries; a lookup only
\* appends to it; and a lookup that fails when it already holds 3 entries
\* resolves to "unknown", is cached as such and leaves the log as it was,
\* while an earlier failure is logged.
C26_ErrorLogCapped ==
    /\ Len(ldap_errors) <= 3
    /\ last_lookup # NotCalled =>
          LET before == last_lookup.errors_before
              failed == last_lookup.kind \in LoggedKinds
              key    == <<last_lookup.user, last_lookup.attribute>>
          IN  /\ Len(before) <= Len(ldap_errors)
              /\ SubSeq(ldap_errors, 1, Len(before)) = before
              /\ failed =>
                    /\ last_lookup.t = "return"
                    /\ last_lookup.value = "unknown"
                    /\ user_cache[key] = "unknown"
              /\ (failed /\ Len(before) = 3) => ldap_errors = before
              /\ (failed /\ Len(before) < 3) =>
                    /\ Len(ldap_errors) = Len(before) + 1
                    /\ ldap_errors[Len(ldap_errors)].user = last_lookup.user
              /\ ~failed => ldap_errors = before

\* A fourth lookup fails with an exception when three failures are logged.
C26_Witness ==
    /\ last_lookup # NotCalled
    /\ last_lookup.kind = "exception"
    /\ Len(last_lookup.errors_before) = 3
    /\ Len(ldap_errors) = 3
    /\ last_lookup.value = "unknown"
    /\ Cardinality({k \in DOMAIN user_cache : user_cache[k] = "unknown"}) = 4

(***************************************************************************)
(* C27: wait time                                                          *)
(***************************************************************************)

\* C27: wait_time is start - submit, unclamped, whenever both start and
\* submit are set (non-zero, non-null), so it is negative exactly when
\* both are set and start < submit; and it is 0 when either is 0 or null.
C27_WaitUnclamped ==
    Called =>
        /\ metrics.t = "metrics"
        /\ LET b == ColVal(row.time_start)
               s == ColVal(row.time_submit)
           IN  /\ NumIs(metrics.wait_time, IF b # 0 /\ s # 0 THEN b - s ELSE 0)
               /\ (b # 0 /\ s # 0 /\ b < s) <=> metrics.wait_time.n < 0
               /\ (b = 0 \/ s = 0) => metrics.wait_time = PyInt(0)

\* Reached: a job submitted at 30 that started at 20 has a wait of -10.
C27_Witness ==
    /\ Called /\ metrics.t = "metrics"
    /\ row.time_submit = PyInt(30) /\ row.time_start = PyInt(20)
    /\ NumIs(metrics.wait_time, -10)

(***************************************************************************)
(* C28: the counters of a group                                            *)
(***************************************************************************)

\* The sum of the counts of a histogram.
RECURSIVE SumCounts(_)
SumCounts(d) ==
    IF DOMAIN d = {} THEN 0
    ELSE LET k == CHOOSE x \in DOMAIN d : TRUE
         IN  d[k].n + SumCounts([x \in DOMAIN d \ {k} |-> d[x]])

\* Every job folded into the group is in one of the six finished states.
AllFinishedStates(jobs) ==
    \A i \in 1..Len(jobs) : jobs[i].state.n \in FINISHED_STATES

\* C28: after any sequence of update_stats calls, in every group job_count
\* (the number of jobs folded into it) = job_count_success +
\* job_count_failed = the sum of the exit-code counts; the per-state counts
\* sum to job_count when every folded job is in a finished state; and for
\* each ratio kind success_count_X_eff <= count_X_eff <= job_count.
C28_CountersConsistent ==
    \A g \in GroupsOf(stats) :
        LET s == GroupAt(stats, g)
            n == s.job_count.n
        IN  /\ n = Len(JobsOf(g))
            /\ n = s.job_count_success.n + s.job_count_failed.n
            /\ n = SumCounts(s.exit_codes)
            /\ AllFinishedStates(JobsOf(g)) => n = SumCounts(s.count_by_state)
            /\ \A x \in RatioKinds :
                  /\ 0 <= s["success_count_" \o x \o "_eff"].n
                  /\ s["success_count_" \o x \o "_eff"].n
                        <= s["count_" \o x \o "_eff"].n
                  /\ s["count_" \o x \o "_eff"].n <= n

\* A group of three jobs, one completed and two not, with two exit codes,
\* one of them counted twice, in which a ratio is missing for one job and
\* present for a job that did not succeed.
C28_Witness ==
    \E g \in GroupsOf(stats) :
        LET s == GroupAt(stats, g)
        IN  /\ s.job_count = PyInt(3)
            /\ s.job_count_success = PyInt(1)
            /\ s.job_count_failed = PyInt(2)
            /\ Cardinality(DOMAIN s.exit_codes) = 2
            /\ s.count_time_eff = PyInt(2)
            /\ s.success_count_time_eff = PyInt(1)
            /\ s.count_by_state["timeout"] = PyInt(1)


-----------------------------------------------------------------------------
(* Weighted efficiencies against the per-job ratios                         *)

\* C29: after finalize, for any group in which at least one folded job has
\* a per-job ratio of kind X (cpu, mem or time) that is not None,
\* weighted_X_eff is not None and lies between the minimum and the maximum
\* of the non-null per-job X ratios of the jobs folded into that group.
C29_WeightedWithinJobRatios ==
    finalized =>
      \A g \in GroupsOf(stats) : \A x \in RatioKinds :
        LET f     == x \o "_eff"
            w     == GroupAt(stats, g)["weighted_" \o f]
            rated == Rated(JobsOf(g), f)
        IN  rated # <<>> =>
              /\ w # None
              /\ \E i \in 1..Len(rated) : NumLe(rated[i][f], w)
              /\ \E i \in 1..Len(rated) : NumLe(w, rated[i][f])


-----------------------------------------------------------------------------
(* The job-level memory maximum                                             *)

\* The integer a step's tres_usage_in_max holds for the memory id, as the
\* resource-list parser decodes it: 0 without an entry for the id.
DecodedMem(step) == parse_tres_value(PyStr(step.tres_usage_in_max), TRES_MEM_ID).n

\* The list has an entry for the memory id: one of its comma-separated
\* pieces starts with "2=".
HasMemEntry(usage) ==
    LET pieces == Split(usage, ",")
    IN  \E i \in 1..Len(pieces) :
            Len(pieces[i]) >= 2 /\ SubSeq(pieces[i], 1, 2) = <<"2", "=">>

\* The numeric maximum of the decoded memory values over all steps of the
\* store, None for a job without steps.
NumericMaxMem ==
    LET vals == {DecodedMem(steps[id]) : id \in DOMAIN steps}
    IN  IF vals = {} THEN None
        ELSE PyInt(CHOOSE v \in vals : \A w \in vals : w <= v)

\* C30: the max_mem_bytes column of a job's row is the numeric maximum,
\* over all steps of the job (regular and special), of the integer decoded
\* for memory id 2 from each step's tres_usage_in_max; a step whose list
\* has no id-2 entry contributes 0; a job without steps has a null
\* maximum, and both metric calculators turn a null maximum into maxrss 0.
C30_MaxMemIsNumericMaxOverSteps ==
    /\ row.t = "row" => row.max_mem_bytes = NumericMaxMem
    /\ jrow.t = "row" => jrow.max_mem_bytes = NumericMaxMem
    /\ metrics # NotCalled =>
         /\ metrics.t = "metrics"
         /\ metrics.maxrss = PyInt(ColVal(NumericMaxMem))
    /\ jmetrics # NotCalled =>
         /\ jmetrics.t = "job"
         /\ jmetrics.maxrss_bytes = PyInt(ColVal(NumericMaxMem))
    /\ \A id \in DOMAIN steps :
         ~HasMemEntry(steps[id].tres_usage_in_max)
           => StepMem(steps[id].tres_usage_in_max) = 0

\* The batch step peaked at 100 bytes and a regular step at 9, so that the
\* greatest raw list ("2=9") is not the one with the greatest value; both
\* tools read 100 as the job's maximum.
C30_Witness ==
    /\ DOMAIN steps = {-5, 0}
    /\ steps[0].tres_usage_in_max = FormatTres(<< <<2, 9>> >>)
    /\ steps[-5].tres_usage_in_max = FormatTres(<< <<2, 100>> >>)
    /\ row.t = "row" /\ row.max_mem_bytes = PyInt(100)
    /\ metrics.t = "metrics" /\ metrics.maxrss = PyInt(100)
    /\ jmetrics.t = "job" /\ jmetrics.maxrss_bytes = PyInt(100)

=============================================================================
